---- MODULE Spec2Model ----
(***************************************************************************)
(* Model of the star-schema loaders of STADVDB_MCO1 (src/loaders/*.py and  *)
(* src/main.py): the warehouse tables, the five load stages and the pure   *)
(* normalisers they share.                                                 *)
(*                                                                         *)
(* Values.  Python/SQL cells are dynamically typed, so every cell is a     *)
(* tagged record: Null (None / NaN / SQL NULL), Num(n) (a number),         *)
(* Txt(s) (a string that is only stored and compared), Str(c) (a string    *)
(* the code takes apart, kept as a tuple of characters), Fmt(p, c) (an     *)
(* f-string prefix + inserted id), Date(y, m, d) and Ratio(n, d) (the      *)
(* float quotient of the ROI).  Ratings are kept in tenths (50 = 5.0).     *)
(* Columns that the code writes exactly like a modelled neighbour are left *)
(* out: ISBN, Publication_Date, Language_Code and Num_Pages of Dim_Book    *)
(* follow Author; Primary_Profession of Dim_Actor follows Birth_Year;      *)
(* Book_Text_Reviews_Count and Movie_Review_Count follow the counts kept.  *)
(* The [:n] clips are the identity on the short strings used here.         *)
(***************************************************************************)
EXTENDS Integers, Sequences, FiniteSets, TLC

VARIABLES db, seq, hist, prev

vars == <<db, seq, hist, prev>>

-----------------------------------------------------------------------------
(* Cell values *)

Null == [k |-> "null"]
Num(n) == [k |-> "num", v |-> n]
Txt(s) == [k |-> "txt", s |-> s]
Str(c) == [k |-> "str", c |-> c]
Fmt(p, c) == [k |-> "fmt", p |-> p, c |-> c]
Date(y, m, d) == [k |-> "date", y |-> y, m |-> m, d |-> d]

IsNull(v) == v.k = "null"
NotNa(v) == v.k # "null"

\* Python truthiness of a cell: None, 0 and "" are false.
Truthy(v) ==
    CASE v.k = "null" -> FALSE
      [] v.k = "num" -> v.v # 0
      [] v.k = "str" -> Len(v.c) > 0
      [] OTHER -> TRUE

\* Python's `a or b`.
PyOr(a, b) == IF Truthy(a) THEN a ELSE b

\* SQL COALESCE(a, b).
Coalesce(a, b) == IF a.k # "null" THEN a ELSE b

-----------------------------------------------------------------------------
(* Characters and strings *)

Digits == <<"0", "1", "2", "3", "4", "5", "6", "7", "8", "9">>

\* Code-point order of the characters the model uses.
Alphabet == <<" ", "$", ",">> \o Digits \o <<"N", "e", "m", "n", "o", "t">>

IsDigit(ch) == \E i \in 1..Len(Digits) : Digits[i] = ch

DigitVal(ch) == (CHOOSE i \in 1..Len(Digits) : Digits[i] = ch) - 1

CharRank(ch) == CHOOSE i \in 1..Len(Alphabet) : Alphabet[i] = ch

\* Python's str < str.
StrLess(a, b) ==
    \E i \in 1..(Len(b)) :
        /\ \A j \in 1..(i - 1) : j <= Len(a) /\ a[j] = b[j]
        /\ \/ i = Len(a) + 1
           \/ i <= Len(a) /\ CharRank(a[i]) < CharRank(b[i])

\* str.strip()
RECURSIVE LStrip(_)
LStrip(c) == IF c # <<>> /\ Head(c) = " " THEN LStrip(Tail(c)) ELSE c

RECURSIVE RStrip(_)
RStrip(c) ==
    IF c # <<>> /\ c[Len(c)] = " " THEN RStrip(SubSeq(c, 1, Len(c) - 1)) ELSE c

Strip(c) == RStrip(LStrip(c))

\* The maximal run of digits of c that starts at position i.
RECURSIVE DigitRun(_, _)
DigitRun(c, i) ==
    IF i <= Len(c) /\ IsDigit(c[i]) THEN <<c[i]>> \o DigitRun(c, i + 1) ELSE <<>>

\* str(n) of a non-negative integer.
RECURSIVE IntToStr(_)
IntToStr(n) ==
    IF n < 10 THEN <<Digits[n + 1]>>
    ELSE IntToStr(n \div 10) \o <<Digits[(n % 10) + 1]>>

\* int() of a string of digits.
RECURSIVE StrToInt(_)
StrToInt(c) ==
    IF c = <<>> THEN 0
    ELSE 10 * StrToInt(SubSeq(c, 1, Len(c) - 1)) + DigitVal(c[Len(c)])

\* str.replace(ch, "")
RECURSIVE Remove(_, _)
Remove(c, ch) ==
    IF c = <<>> THEN <<>>
    ELSE IF Head(c) = ch THEN Remove(Tail(c), ch)
    ELSE <<Head(c)>> \o Remove(Tail(c), ch)

\* str(v) of a cell, for the cells the loaders pass to str().
PyStr(v) ==
    CASE v.k = "str" -> v.c
      [] v.k = "num" -> IntToStr(v.v)
      [] v.k = "null" -> <<"N", "o", "n", "e">>

-----------------------------------------------------------------------------
(* Normalisers *)

\* The pattern tt(\d+): both letters required.
TTMatchAt_DoubleT(c, i) ==
    IF i + 1 <= Len(c) /\ c[i] = "t" /\ c[i + 1] = "t" THEN DigitRun(c, i + 2)
    ELSE <<>>

\* re.search(r"tt?(\d+)", s): the leftmost "t", an optional second "t", then
\* the longest digit run; <<>> stands for no match.
TTMatchAt(c, i) ==
    IF i > Len(c) \/ c[i] # "t" THEN <<>>
    ELSE IF i + 1 <= Len(c) /\ c[i + 1] = "t" /\ DigitRun(c, i + 2) # <<>>
         THEN DigitRun(c, i + 2)
         ELSE DigitRun(c, i + 1)

_derive_movie_id_source_from_imdb(imdb_id) ==
    IF imdb_id.k # "str" \/ imdb_id.c = <<>> THEN Null
    ELSE LET c == Strip(imdb_id.c)
             hits == {i \in 1..Len(c) : TTMatchAt(c, i) # <<>>}
         IN  IF hits = {} THEN Null
             ELSE Str(TTMatchAt(c, CHOOSE i \in hits : \A j \in hits : i <= j))

\* A raw date cell is a parsed calendar date (an ISO string or a spreadsheet
\* date), a bare number, or free text that pandas cannot parse and that may
\* hold a 4-digit year (Num(y) in field yr, else Null).
RawDate(y, m, d) == [k |-> "date", y |-> y, m |-> m, d |-> d]
RawText(yr) == [k |-> "text", yr |-> yr]

_coerce_date(val) ==
    CASE val.k = "null" -> Null
      [] val.k = "num" ->
            IF 1800 < val.v /\ val.v < 2100 THEN Date(val.v, 1, 1) ELSE Null
      [] val.k = "date" -> Date(val.y, val.m, val.d)
      [] val.k = "text" ->
            IF val.yr.k = "num" THEN Date(val.yr.v, 1, 1) ELSE Null
      [] OTHER -> Null

\* A key of year and month only: d.year * 10000 + d.month * 100.
_date_to_sk_NoDay(d) == d.y * 10000 + d.m * 100

\* A key with three digits for month and day: d.year * 1000 + d.month * 100
\* + d.day.
_date_to_sk_Packed(d) == d.y * 1000 + d.m * 100 + d.d

_date_to_sk(d) == d.y * 10000 + d.m * 100 + d.d

\* float(v): a number, or a string of digits; <<>> when float() raises.
ParseNumber(v) ==
    CASE v.k = "num" -> v
      [] v.k = "str" ->
            IF v.c # <<>> /\ \A i \in 1..Len(v.c) : IsDigit(v.c[i])
            THEN Num(StrToInt(v.c)) ELSE Null
      [] OTHER -> Null

\* float(v) with optional inclusive bounds (Null when the caller gives none);
\* ratings are in tenths, so the callers' bounds are too.
_safe_float(v, lo, hi) ==
    LET f == ParseNumber(v)
    IN  IF f.k # "num" THEN Null
        ELSE IF lo.k = "num" /\ f.v < lo.v THEN Null
        ELSE IF hi.k = "num" /\ f.v > hi.v THEN Null
        ELSE f

\* int(float(v)); None when the conversion raises.
_safe_int(v) == ParseNumber(v)

\* str(val).replace("$", "").replace(",", "") then _safe_float.
_clean_currency(val) ==
    IF val.k = "null" THEN Null
    ELSE _safe_float(Str(Remove(Remove(PyStr(val), "$"), ",")), Null, Null)

-----------------------------------------------------------------------------
(* Python containers *)

\* for-loop with an accumulator: Step(acc, s[i]) for i = 1..Len(s).
Fold(Step(_, _), init, s) ==
    LET f[i \in 0..Len(s)] == IF i = 0 THEN init ELSE Step(f[i - 1], s[i])
    IN  f[Len(s)]

\* A dict, in insertion order: a sequence of <<key, value>> with distinct keys.
DictHas(d, key) == \E i \in 1..Len(d) : d[i][1] = key

DictGet(d, key, default) ==
    IF DictHas(d, key)
    THEN d[CHOOSE i \in 1..Len(d) : d[i][1] = key][2]
    ELSE default

DictPut(d, key, val) ==
    IF DictHas(d, key)
    THEN [i \in 1..Len(d) |-> IF d[i][1] = key THEN <<key, val>> ELSE d[i]]
    ELSE Append(d, <<key, val>>)

DictKeys(d) == [i \in 1..Len(d) |-> d[i][1]]

\* sorted(S) for a set of strings (character tuples).
RECURSIVE SortedStrs(_)
SortedStrs(S) ==
    IF S = {} THEN <<>>
    ELSE LET m == CHOOSE x \in S : \A y \in S : y = x \/ StrLess(x, y)
         IN  <<m>> \o SortedStrs(S \ {m})

\* sorted(S) for a set of pairs of strings.
PairLess(a, b) == StrLess(a[1], b[1]) \/ (a[1] = b[1] /\ StrLess(a[2], b[2]))

RECURSIVE SortedPairs(_)
SortedPairs(S) ==
    IF S = {} THEN <<>>
    ELSE LET m == CHOOSE x \in S : \A y \in S : y = x \/ PairLess(x, y)
         IN  <<m>> \o SortedPairs(S \ {m})

Range(s) == {s[i] : i \in 1..Len(s)}

-----------------------------------------------------------------------------
(* The warehouse: tables are sets of rows; the store's key generators       *)
(* (seq) advance on every INSERT attempt and are not part of a transaction. *)

EmptyDb ==
    [Dim_Book |-> {}, Dim_Movie |-> {}, Dim_Actor |-> {}, Dim_Date |-> {},
     Bridge_Movie_Actor |-> {}, Fact_Book_Adaptation |-> {}]

EmptySeq == [book |-> 0, movie |-> 0, actor |-> 0]

\* A plain INSERT INTO Dim_Book without the ON CONFLICT clause reaching its
\* DO UPDATE branch: every call adds a row under a fresh key.
UpsertDimBookFromLinks_PlainInsert(t, p) ==
    LET n == t.seq.book + 1
    IN  [t |-> [db |-> [t.db EXCEPT !.Dim_Book = @ \cup
                        {[Book_SK |-> n, Book_ID_Source |-> p.src, Title |-> p.title,
                          Author |-> p.author, Publisher |-> Null]}],
                seq |-> [t.seq EXCEPT !.book = n]],
         sk |-> n]

\* INSERT INTO Dim_Book ... ON CONFLICT (Book_ID_Source) DO UPDATE SET
\* Title, Author = EXCLUDED.* RETURNING Book_SK (link stage: Publisher is
\* inserted as NULL and is not in the SET list).
UpsertDimBookFromLinks(t, p) ==
    LET hit == {r \in t.db.Dim_Book : r.Book_ID_Source = p.src}
        n == t.seq.book + 1
        row == [Book_SK |-> n, Book_ID_Source |-> p.src, Title |-> p.title,
                Author |-> p.author, Publisher |-> Null]
        upd == {[r EXCEPT !.Title = p.title, !.Author = p.author] : r \in hit}
    IN  [t |-> [db |-> [t.db EXCEPT !.Dim_Book =
                            IF hit = {} THEN @ \cup {row} ELSE (@ \ hit) \cup upd],
                seq |-> [t.seq EXCEPT !.book = n]],
         sk |-> IF hit = {} THEN n ELSE (CHOOSE r \in hit : TRUE).Book_SK]

\* INSERT INTO Dim_Movie ... ON CONFLICT (Movie_ID_Source) DO UPDATE SET the
\* six descriptive columns = EXCLUDED.* RETURNING Movie_SK.
UpsertDimMovie(t, p) ==
    LET hit == {r \in t.db.Dim_Movie : r.Movie_ID_Source = p.src}
        n == t.seq.movie + 1
        row == [Movie_SK |-> n, Movie_ID_Source |-> p.src,
                Movie_Title_Source |-> p.title, Release_Date |-> p.rdate,
                Release_Year |-> p.ryear, Distributor |-> p.dist,
                Genre |-> p.genre, Director |-> p.director,
                TMDb_Popularity |-> Null]
        upd == {[r EXCEPT !.Movie_Title_Source = p.title,
                          !.Release_Date = p.rdate, !.Release_Year = p.ryear,
                          !.Distributor = p.dist, !.Genre = p.genre,
                          !.Director = p.director] : r \in hit}
    IN  [t |-> [db |-> [t.db EXCEPT !.Dim_Movie =
                            IF hit = {} THEN @ \cup {row} ELSE (@ \ hit) \cup upd],
                seq |-> [t.seq EXCEPT !.movie = n]],
         sk |-> IF hit = {} THEN n ELSE (CHOOSE r \in hit : TRUE).Movie_SK]

\* INSERT INTO Dim_Date ... ON CONFLICT (Date_SK) DO NOTHING.
\* The Dim_Date step left out: no date row is written.
InsertDimDate_Left_Out(t, sk, d) == t

InsertDimDate(t, sk, d) ==
    IF \E r \in t.db.Dim_Date : r.Date_SK = sk THEN t
    ELSE [t EXCEPT !.db.Dim_Date = @ \cup {[Date_SK |-> sk, Full_Date |-> d]}]

\* INSERT INTO Dim_Actor (Actor_ID_Source, Name) ... ON CONFLICT
\* (Actor_ID_Source) DO UPDATE SET Name = EXCLUDED.Name RETURNING Actor_SK.
UpsertDimActorName(t, p) ==
    LET hit == {r \in t.db.Dim_Actor : r.Actor_ID_Source = p.src}
        n == t.seq.actor + 1
        row == [Actor_SK |-> n, Actor_ID_Source |-> p.src, Name |-> p.name,
                Birth_Year |-> Null, Popularity_Score |-> Null]
        upd == {[r EXCEPT !.Name = p.name] : r \in hit}
    IN  [t |-> [db |-> [t.db EXCEPT !.Dim_Actor =
                            IF hit = {} THEN @ \cup {row} ELSE (@ \ hit) \cup upd],
                seq |-> [t.seq EXCEPT !.actor = n]],
         sk |-> IF hit = {} THEN n ELSE (CHOOSE r \in hit : TRUE).Actor_SK]

\* INSERT INTO Bridge_Movie_Actor ... ON CONFLICT (Movie_SK, Actor_SK) DO NOTHING.
\* The same statement with ON CONFLICT (Movie_SK, Actor_SK) DO UPDATE SET
\* Role = EXCLUDED.Role in place of DO NOTHING.
InsertBridge_UpdateRole(t, msk, ask, role) ==
    [t EXCEPT !.db.Bridge_Movie_Actor =
        {r \in @ : ~(r.Movie_SK = msk /\ r.Actor_SK = ask)}
            \cup {[Movie_SK |-> msk, Actor_SK |-> ask, Role |-> role]}]

InsertBridge(t, msk, ask, role) ==
    IF \E r \in t.db.Bridge_Movie_Actor : r.Movie_SK = msk /\ r.Actor_SK = ask
    THEN t
    ELSE [t EXCEPT !.db.Bridge_Movie_Actor =
                @ \cup {[Movie_SK |-> msk, Actor_SK |-> ask, Role |-> role]}]

\* INSERT INTO Fact_Book_Adaptation without the ON CONFLICT clause and
\* without the unique constraint behind it.
InsertFact_NoConflictClause(t, row) ==
    [t EXCEPT !.db.Fact_Book_Adaptation = @ \cup {row}]

\* INSERT INTO Fact_Book_Adaptation ... ON CONFLICT (Book_SK, Movie_SK) DO NOTHING.
\* The same INSERT with ON CONFLICT (Book_SK, Movie_SK) DO UPDATE SET every
\* measure = EXCLUDED.*.
InsertFact_UpdateMeasures(t, row) ==
    [t EXCEPT !.db.Fact_Book_Adaptation =
        {r \in @ : ~(r.Book_SK = row.Book_SK /\ r.Movie_SK = row.Movie_SK)}
            \cup {row}]

InsertFact(t, row) ==
    IF \E r \in t.db.Fact_Book_Adaptation :
            r.Book_SK = row.Book_SK /\ r.Movie_SK = row.Movie_SK
    THEN t
    ELSE [t EXCEPT !.db.Fact_Book_Adaptation = @ \cup {row}]

-----------------------------------------------------------------------------
(* Derived measures *)

Abs(x) == IF x < 0 THEN -x ELSE x

RECURSIVE Gcd(_, _)
Gcd(a, b) == IF b = 0 THEN a ELSE Gcd(b, a % b)

\* The float n / d, kept exact: a fraction in lowest terms, d > 0.
Ratio(n, d) ==
    LET g == Gcd(Abs(n), Abs(d))
        sgn == IF d < 0 THEN -1 ELSE 1
    IN  [k |-> "ratio", n |-> sgn * (n \div g), d |-> sgn * (d \div g)]

\* profit = (revenue - budget) if budget is not None and revenue is not None
ProfitOf(budget, revenue) ==
    IF budget.k # "null" /\ revenue.k # "null" THEN Num(revenue.v - budget.v)
    ELSE Null

\* link stage: roi = (profit / budget * 100) if profit is not None and
\* budget is not None and budget != 0 else None
RoiLinks(profit, budget) ==
    IF profit.k # "null" /\ budget.k # "null" /\ budget.v # 0
    THEN Ratio(profit.v * 100, budget.v)
    ELSE Null

\* remote enrichment: the same, guarded by budget > 0
RoiTmdb(profit, budget) ==
    IF profit.k # "null" /\ budget.k # "null" /\ budget.v > 0
    THEN Ratio(profit.v * 100, budget.v)
    ELSE Null

-----------------------------------------------------------------------------
(* Link stage: load_dw_from_bfr.  A source is the SQLite snapshot:          *)
(* [books, movies, tmdbmap, genres, people, links], each a sequence of rows *)
(* whose absent cells are Null.                                             *)

\* tmdb_to_imdb: mapping-table rows first, then movie rows; last write wins.
\* The same assignment guarded by `if int(t) not in tmdb_to_imdb`.
SetImdbOfTmdb_KeepFirst(d, t, i) ==
    IF DictHas(d, t) THEN d ELSE DictPut(d, t, i)

\* tmdb_to_imdb[int(t)] = str(i)
SetImdbOfTmdb(d, t, i) == DictPut(d, t, i)

BuildTmdbToImdb(src) ==
    LET Step(d, r) ==
            IF NotNa(r.tmdbid) /\ NotNa(r.imdbid)
            THEN SetImdbOfTmdb(d, r.tmdbid.v, Str(PyStr(r.imdbid)))
            ELSE d
    IN  Fold(Step, Fold(Step, <<>>, src.tmdbmap), src.movies)

\* ", ".join of the labels: one label is that label.
JoinLabels(parts) ==
    IF Len(parts) = 1 THEN Txt(parts[1]) ELSE [k |-> "join", parts |-> parts]

\* imdb_to_genre: per movie key, its distinct genre labels in order of
\* first appearance (groupby drops the rows whose key is None).
BuildImdbToGenre(src) ==
    LET Step(d, r) ==
            LET key == IF NotNa(r.imdbid)
                       THEN _derive_movie_id_source_from_imdb(Str(PyStr(r.imdbid)))
                       ELSE Null
                old == DictGet(d, key.c, <<>>)
            IN  IF key.k = "null" THEN d
                ELSE IF \E j \in 1..Len(old) : old[j] = r.genre THEN d
                ELSE DictPut(d, key.c, Append(old, r.genre))
        lists == Fold(Step, <<>>, src.genres)
    IN  [j \in 1..Len(lists) |-> <<lists[j][1], JoinLabels(lists[j][2])>>]

\* The loop over movie_actor_director: imdb_to_director, actors_data and
\* unique_actors.
\* imdb_to_director[imdb_key] = name, whatever the dict holds.
SetDirector_Overwrite(d, key, name) == DictPut(d, key, name)

\* if imdb_key not in imdb_to_director: imdb_to_director[imdb_key] = name
SetDirector(d, key, name) ==
    IF DictHas(d, key) THEN d ELSE DictPut(d, key, name)

BuildPeople(src) ==
    LET Step(a, r) ==
            LET imdb_key == _derive_movie_id_source_from_imdb(r.tconst)
            IN  IF ~Truthy(imdb_key) \/ ~Truthy(r.nconst) \/ ~Truthy(r.primaryname)
                THEN a
                ELSE IF r.category = Txt("director")
                THEN [a EXCEPT !.imdb_to_director =
                                SetDirector(@, imdb_key.c, r.primaryname)]
                ELSE IF r.category \in {Txt("actor"), Txt("actress")}
                THEN [a EXCEPT
                        !.actors_data = Append(@, [imdb_key |-> imdb_key.c,
                            actor_id |-> r.nconst, name |-> r.primaryname,
                            role |-> r.role]),
                        !.unique_actors =
                            IF DictHas(@, r.nconst) THEN @
                            ELSE DictPut(@, r.nconst, r.primaryname)]
                ELSE a
    IN  Fold(Step, [imdb_to_director |-> <<>>, actors_data |-> <<>>,
                    unique_actors |-> <<>>], src.people)

NoMovie ==
    [title |-> Null, release_date |-> Null, vote_average |-> Null,
     distributor |-> Null, genre |-> Null, director |-> Null,
     budget |-> Null, revenue |-> Null]

\* imdb_to_movie: the metadata kept per movie key (a later row replaces it).
BuildImdbToMovie(src, imdb_to_genre, imdb_to_director) ==
    LET Step(d, r) ==
            LET key == IF NotNa(r.imdbid)
                       THEN _derive_movie_id_source_from_imdb(Str(PyStr(r.imdbid)))
                       ELSE Null
            IN  IF ~Truthy(key) THEN d
                ELSE DictPut(d, key.c,
                    [title |-> r.title,
                     release_date |-> _coerce_date(PyOr(r.release_date, r.year)),
                     \* r.get("averagerating") or r.get("rating_average") or ...:
                     \* the snapshot has the first of these columns only
                     vote_average |-> _safe_float(PyOr(r.averagerating, Null),
                                                  Num(0), Num(100)),
                     distributor |-> r.distributor,
                     genre |-> DictGet(imdb_to_genre, key.c, Null),
                     director |-> DictGet(imdb_to_director, key.c, Null),
                     budget |-> _safe_int(r.budget),
                     revenue |-> _safe_int(r.revenue)])
    IN  Fold(Step, <<>>, src.movies)

\* str(int(x)) if x is not a str, else x.strip()
BookIdText(x) == IF x.k = "str" THEN Strip(x.c) ELSE IntToStr(x.v)

NoBook ==
    [title |-> Null, authors |-> Null, avg_rating |-> Null, ratings_count |-> Null,
     text_reviews_count |-> Null]

\* book_measures: the books table keyed by the source book id.
BuildBookMeasures(src) ==
    LET Step(d, r) ==
            IF IsNull(r.goodreads_book_id) THEN d
            ELSE DictPut(d, BookIdText(r.goodreads_book_id),
                    [title |-> r.title, authors |-> r.author,
                     \* r.get("avg_rating") or r.get("average_rating"), and
                     \* r.get("rating_count") or r.get("ratings_count"): the
                     \* snapshot has the first column of each pair only
                     avg_rating |-> _safe_float(PyOr(r.avg_rating, Null),
                                                Num(0), Num(50)),
                     ratings_count |-> _safe_int(PyOr(r.rating_count, Null)),
                     \* review_count, work_text_reviews_count and
                     \* text_reviews_count: none of them is in the snapshot
                     text_reviews_count |-> _safe_int(PyOr(Null, PyOr(Null, Null)))])
    IN  Fold(Step, <<>>, src.books)

\* One link row: its (book id, movie key) pair, or <<>> when either side
\* cannot be derived.
NormLink(r, tmdb_to_imdb) ==
    LET bid == IF NotNa(r.goodreads_book_id)
               THEN BookIdText(r.goodreads_book_id) ELSE <<>>
        direct == IF NotNa(r.imdb_id)
                  THEN _derive_movie_id_source_from_imdb(Str(PyStr(r.imdb_id)))
                  ELSE Null
        mapped == IF NotNa(r.tmdb_id)
                  THEN LET imdb_id == DictGet(tmdb_to_imdb, r.tmdb_id.v, Null)
                       IN  IF Truthy(imdb_id)
                           THEN _derive_movie_id_source_from_imdb(imdb_id)
                           ELSE Null
                  ELSE Null
        imdb_key == IF Truthy(direct) THEN direct ELSE mapped
    IN  IF bid = <<>> \/ ~Truthy(imdb_key) THEN <<>>
        ELSE <<bid, imdb_key.c>>

\* norm_links = sorted(list(set(norm_links)))
NormLinks(src, tmdb_to_imdb) ==
    SortedPairs({NormLink(src.links[i], tmdb_to_imdb) : i \in 1..Len(src.links)}
                    \ {<<>>})

\* The fact row the link stage inserts for one resolved pair.
LinkFactRow(bsk, msk, bm, mm) ==
    LET profit == ProfitOf(mm.budget, mm.revenue)
    IN  [Book_SK |-> bsk, Movie_SK |-> msk,
         Movie_Release_Date_SK |->
            IF Truthy(mm.release_date) THEN Num(_date_to_sk(mm.release_date))
            ELSE Null,
         Box_Office_Gross |-> mm.revenue, Tickets_Sold |-> Null,
         Production_Budget |-> mm.budget, Profit |-> profit,
         ROI |-> RoiLinks(profit, mm.budget),
         Book_Average_Rating |-> bm.avg_rating,
         Book_Ratings_Count |-> bm.ratings_count,
         Book_Text_Reviews_Count |-> bm.text_reviews_count,
         Movie_Average_Rating |-> mm.vote_average]

\* The crosswalks of one run, built before the transaction opens.
Crosswalks(src) ==
    [tmdb_to_imdb |-> BuildTmdbToImdb(src),
     imdb_to_genre |-> BuildImdbToGenre(src),
     people |-> BuildPeople(src),
     book_measures |-> BuildBookMeasures(src)]

LinkInputs(src, x) ==
    [tmdb_to_imdb |-> x.tmdb_to_imdb,
     imdb_to_genre |-> x.imdb_to_genre,
     imdb_to_director |-> x.people.imdb_to_director,
     actors_data |-> x.people.actors_data,
     unique_actors |-> x.people.unique_actors,
     book_measures |-> x.book_measures,
     imdb_to_movie |-> BuildImdbToMovie(src, x.imdb_to_genre, x.people.imdb_to_director),
     norm_links |-> NormLinks(src, x.tmdb_to_imdb)]

\* The parameters of the Dim_Book statement for one book id.
LinkBookParams(x, id) ==
    LET bm == DictGet(x.book_measures, id, NoBook)
    IN  [src |-> Str(id),
         title |-> PyOr(bm.title, Fmt("Book ", id)),
         author |-> IF Truthy(bm.authors) THEN bm.authors ELSE Null]

\* # Dim_Book: for book_src_id in sorted({b for b, _ in norm_links})
BookPhase(x, s) ==
    LET Step(a, id) ==
            LET r == UpsertDimBookFromLinks(a.t, LinkBookParams(x, id))
            IN  [a EXCEPT !.t = r.t, !.book_src_to_sk = DictPut(@, id, r.sk)]
    IN  Fold(Step, s, SortedStrs({l[1] : l \in Range(x.norm_links)}))

\* The parameters of the Dim_Movie statement for one movie key.
LinkMovieParams(x, id) ==
    LET mm == DictGet(x.imdb_to_movie, id, NoMovie)
        genre_val == PyOr(mm.genre, DictGet(x.imdb_to_genre, id, Null))
        director_val == PyOr(mm.director, DictGet(x.imdb_to_director, id, Null))
    IN  [src |-> Str(id),
         title |-> PyOr(mm.title, Fmt("Movie tt", id)),
         rdate |-> mm.release_date,
         ryear |-> IF Truthy(mm.release_date) THEN Num(mm.release_date.y) ELSE Null,
         dist |-> mm.distributor,
         genre |-> IF Truthy(genre_val) THEN genre_val ELSE Null,
         director |-> IF Truthy(director_val) THEN director_val ELSE Null]

\* # Dim_Movie: for movie_src_id in sorted({m for _, m in norm_links})
MoviePhase(x, s) ==
    LET Step(a, id) ==
            LET r == UpsertDimMovie(a.t, LinkMovieParams(x, id))
            IN  [a EXCEPT !.t = r.t, !.movie_src_to_sk = DictPut(@, id, r.sk)]
    IN  Fold(Step, s, SortedStrs({l[2] : l \in Range(x.norm_links)}))

\* # Dim_Date for release dates
DatePhase(x, s) ==
    LET Step(a, kv) ==
            LET rdate == DictGet(x.imdb_to_movie, kv[1], NoMovie).release_date
            IN  IF Truthy(rdate)
                THEN [a EXCEPT !.t = InsertDimDate(@, _date_to_sk(rdate), rdate)]
                ELSE a
    IN  Fold(Step, s, s.movie_src_to_sk)

\* #dim actor
\* The same loop written as `while unique_actors: ... = unique_actors.popitem()`:
\* it empties the dict it walks.
ActorPhase_Drain(x, s) ==
    LET Step(a, kv) ==
            LET r == UpsertDimActorName(a.t, [src |-> kv[1], name |-> kv[2]])
            IN  [a EXCEPT !.t = r.t, !.actor_src_to_sk = DictPut(@, kv[1], r.sk),
                          !.maps.unique_actors = <<>>]
    IN  Fold(Step, s, x.unique_actors)

ActorPhase(x, s) ==
    LET Step(a, kv) ==
            LET r == UpsertDimActorName(a.t, [src |-> kv[1], name |-> kv[2]])
            IN  [a EXCEPT !.t = r.t, !.actor_src_to_sk = DictPut(@, kv[1], r.sk)]
    IN  Fold(Step, s, x.unique_actors)

\* for imdb_key, actor_id, actor_name, role in actors_data
BridgePhase(x, s) ==
    LET Step(a, r) ==
            LET msk == DictGet(a.movie_src_to_sk, r.imdb_key, 0)
                ask == DictGet(a.actor_src_to_sk, r.actor_id, 0)
            IN  IF msk # 0 /\ ask # 0
                THEN [a EXCEPT !.t = InsertBridge(@, msk, ask,
                                        IF Truthy(r.role) THEN r.role ELSE Null),
                               !.inserted_bridge = @ + 1]
                ELSE a
    IN  Fold(Step, s, x.actors_data)

\* # Fact
FactPhase(x, s) ==
    LET Step(a, l) ==
            LET bsk == DictGet(a.book_src_to_sk, l[1], 0)
                msk == DictGet(a.movie_src_to_sk, l[2], 0)
            IN  IF bsk = 0 \/ msk = 0 THEN a
                ELSE [a EXCEPT !.t = InsertFact(@, LinkFactRow(bsk, msk,
                                        DictGet(x.book_measures, l[1], NoBook),
                                        DictGet(x.imdb_to_movie, l[2], NoMovie))),
                               !.inserted_facts = @ + 1]
    IN  Fold(Step, s, x.norm_links)

\* The crosswalk dicts and the cast list the function holds when the
\* transaction opens.
CrosswalkMaps(x) ==
    [tmdb_to_imdb |-> x.tmdb_to_imdb, imdb_to_genre |-> x.imdb_to_genre,
     imdb_to_director |-> x.imdb_to_director,
     unique_actors |-> x.unique_actors, actors_data |-> x.actors_data]

\* The body of `with pg.begin() as c`; maps is what the crosswalk variables
\* hold as the steps go by.
LinkTransaction(x, t0) ==
    FactPhase(x, BridgePhase(x, ActorPhase(x, DatePhase(x, MoviePhase(x,
        BookPhase(x, [t |-> t0, book_src_to_sk |-> <<>>, movie_src_to_sk |-> <<>>,
                      actor_src_to_sk |-> <<>>, inserted_bridge |-> 0,
                      inserted_facts |-> 0, maps |-> CrosswalkMaps(x)]))))))

\* A printed line: its text up to the number, and the number.
Line(label, value) == [label |-> label, value |-> value]

\* print(f"Link rows discovered: {len(norm_links)}")
DiscoveredLine(x) == Line("Link rows discovered", Len(x.norm_links))

\* The lines printed after the transaction: "DW load complete:" and the five
\* counts under it.
SummaryLines(s) ==
    <<Line("Books upserted (distinct Book_ID_Source)", Len(s.book_src_to_sk)),
      Line("Movies upserted (distinct IMDb ids)", Len(s.movie_src_to_sk)),
      Line("Actors upserted (distinct Actor_ID)", Len(s.actor_src_to_sk)),
      Line("Movie-Actor bridge rows inserted", s.inserted_bridge),
      Line("Fact rows inserted/updated", s.inserted_facts)>>

\* How the run ends: the early returns before the transaction, the commit,
\* or the rollback when the store raised on the fact INSERT of link failAt
\* (nothing in the function catches it).
LinkOutcome(db0, seq0, x, s, failAt) ==
    IF Len(x.norm_links) = 0
    THEN [db |-> db0, seq |-> seq0,
          out |-> [status |-> "no_links", book_src_to_sk |-> <<>>,
                   movie_src_to_sk |-> <<>>, actor_src_to_sk |-> <<>>,
                   inserted_facts |-> 0, norm_links |-> x.norm_links,
                   maps |-> CrosswalkMaps(x),
                   printed |-> <<DiscoveredLine(x),
                                 Line("DW load complete: rows inserted", 0)>>]]
    ELSE [db |-> IF failAt \in 1..Len(x.norm_links) THEN db0 ELSE s.t.db,
          seq |-> s.t.seq,
          out |-> [status |-> IF failAt \in 1..Len(x.norm_links)
                              THEN "raised" ELSE "committed",
                   book_src_to_sk |-> s.book_src_to_sk,
                   movie_src_to_sk |-> s.movie_src_to_sk,
                   actor_src_to_sk |-> s.actor_src_to_sk,
                   inserted_facts |-> s.inserted_facts,
                   norm_links |-> x.norm_links,
                   maps |-> s.maps,
                   printed |-> IF failAt \in 1..Len(x.norm_links)
                               THEN <<DiscoveredLine(x)>>
                               ELSE <<DiscoveredLine(x)>> \o SummaryLines(s)]]

LinkRun(db0, seq0, x, failAt) ==
    LinkOutcome(db0, seq0, x, LinkTransaction(x, [db |-> db0, seq |-> seq0]), failAt)

\* The norm_links of a source.
LinkPairs(src) == NormLinks(src, BuildTmdbToImdb(src))

\* load_dw_from_bfr on warehouse (db0, seq0); failAt = k > 0 makes the store
\* raise on the fact INSERT of the k-th link.
load_dw_from_bfr(db0, seq0, src, failAt) ==
    LinkRun(db0, seq0, LinkInputs(src, Crosswalks(src)), failAt)

-----------------------------------------------------------------------------
(* Books stage: load_dw_from_books_csv.  A source is the CSV's rows.        *)

\* A delete-then-insert "replace" of the Dim_Book row: the row comes back
\* under a fresh Book_SK.
UpsertDimBookFromCsv_Replace(t, p) ==
    LET n == t.seq.book + 1
    IN  [t |-> [db |-> [t.db EXCEPT !.Dim_Book =
                    {r \in @ : r.Book_ID_Source # p.src} \cup
                    {[Book_SK |-> n, Book_ID_Source |-> p.src, Title |-> p.title,
                      Author |-> p.author, Publisher |-> p.pub]}],
                seq |-> [t.seq EXCEPT !.book = n]],
         sk |-> n]

\* An upsert written as SELECT, then INSERT or UPDATE, whose UPDATE has no
\* WHERE clause: a stored key makes it set the three columns of every row.
UpsertDimBookFromCsv_UpdateAll(t, p) ==
    LET hit == {r \in t.db.Dim_Book : r.Book_ID_Source = p.src}
        n == t.seq.book + 1
        row == [Book_SK |-> n, Book_ID_Source |-> p.src, Title |-> p.title,
                Author |-> p.author, Publisher |-> p.pub]
    IN  [t |-> [db |-> [t.db EXCEPT !.Dim_Book =
                            IF hit = {} THEN @ \cup {row}
                            ELSE {[r EXCEPT !.Title = p.title, !.Author = p.author,
                                            !.Publisher = p.pub] : r \in @}],
                seq |-> [t.seq EXCEPT !.book = n]],
         sk |-> IF hit = {} THEN n ELSE (CHOOSE r \in hit : TRUE).Book_SK]

\* INSERT INTO Dim_Book ... ON CONFLICT (Book_ID_Source) DO UPDATE SET Title,
\* Author, Publisher = EXCLUDED.* RETURNING Book_SK (books stage).
UpsertDimBookFromCsv(t, p) ==
    LET hit == {r \in t.db.Dim_Book : r.Book_ID_Source = p.src}
        n == t.seq.book + 1
        row == [Book_SK |-> n, Book_ID_Source |-> p.src, Title |-> p.title,
                Author |-> p.author, Publisher |-> p.pub]
        upd == {[r EXCEPT !.Title = p.title, !.Author = p.author,
                          !.Publisher = p.pub] : r \in hit}
    IN  [t |-> [db |-> [t.db EXCEPT !.Dim_Book =
                            IF hit = {} THEN @ \cup {row} ELSE (@ \ hit) \cup upd],
                seq |-> [t.seq EXCEPT !.book = n]],
         sk |-> IF hit = {} THEN n ELSE (CHOOSE r \in hit : TRUE).Book_SK]

\* UPDATE Fact_Book_Adaptation f SET the book measures FROM
\* temp_book_measures t WHERE f.Book_SK = t.book_sk.
\* The same UPDATE ... FROM temp_book_measures without its WHERE clause:
\* every fact row takes the measures of a row of the temporary table.
BackfillFacts_NoWhere(t, fact_update_data) ==
    [t EXCEPT !.db.Fact_Book_Adaptation =
        {[f EXCEPT !.Book_Average_Rating = fact_update_data[1].bavg,
                   !.Book_Ratings_Count = fact_update_data[1].brc,
                   !.Book_Text_Reviews_Count = fact_update_data[1].btrc] : f \in @}]

BackfillFacts(t, fact_update_data) ==
    LET Upd(f) ==
            IF \E j \in 1..Len(fact_update_data) : fact_update_data[j].bsk = f.Book_SK
            THEN LET u == fact_update_data[CHOOSE j \in 1..Len(fact_update_data) :
                                fact_update_data[j].bsk = f.Book_SK]
                 IN  [f EXCEPT !.Book_Average_Rating = u.bavg,
                               !.Book_Ratings_Count = u.brc,
                               !.Book_Text_Reviews_Count = u.btrc]
            ELSE f
    IN  [t EXCEPT !.db.Fact_Book_Adaptation = {Upd(f) : f \in @}]

\* load_dw_from_books_csv on warehouse (db0, seq0).  failAt = k > 0 makes the
\* store raise on the Dim_Book statement of row k.  The row's try/except
\* swallows the error, but the one transaction of the run is then aborted:
\* the store rejects every later statement and discards the run's writes
\* when the with-block ends.
load_dw_from_books_csv(db0, seq0, rows, failAt) ==
    LET Step(a, i) ==
            LET r == rows[i]
                book_id_source == PyStr(_safe_int(r.bookid))
                \* (r.get("title") or ...)[:500] raises on a NaN title
                pyError == IsNull(r.title)
                u == UpsertDimBookFromCsv(a.t,
                        [src |-> Str(book_id_source), title |-> r.title,
                         author |-> r.authors, pub |-> r.publisher])
            IN  IF IsNull(r.bookid) \/ book_id_source = <<>> THEN a
                ELSE IF pyError THEN a
                ELSE IF a.aborted \/ i = failAt THEN [a EXCEPT !.aborted = TRUE]
                ELSE [t |-> u.t, aborted |-> FALSE,
                      processed_books |-> a.processed_books + 1,
                      fact_update_data |-> Append(a.fact_update_data,
                          [bsk |-> u.sk,
                           bavg |-> _safe_float(r.average_rating, Num(0), Num(50)),
                           brc |-> _safe_int(r.ratings_count),
                           btrc |-> _safe_int(r.text_reviews_count)])]
        loop == Fold(Step, [t |-> [db |-> db0, seq |-> seq0], aborted |-> FALSE,
                            processed_books |-> 0, fact_update_data |-> <<>>],
                     [i \in 1..Len(rows) |-> i])
        fud == loop.fact_update_data
        \* temp_book_measures has book_sk as its primary key
        duplicate == \E i, j \in 1..Len(fud) : i # j /\ fud[i].bsk = fud[j].bsk
        raised == fud # <<>> /\ (loop.aborted \/ duplicate)
        done == IF fud = <<>> THEN loop.t ELSE BackfillFacts(loop.t, fud)
    IN  [db |-> IF loop.aborted \/ raised THEN db0 ELSE done.db,
         seq |-> loop.t.seq,
         out |-> [status |-> IF raised THEN "raised"
                             ELSE IF loop.aborted THEN "rolled_back" ELSE "committed",
                  processed_books |-> loop.processed_books,
                  fact_update_data |-> fud]]

-----------------------------------------------------------------------------
(* Box-office enrichment: load_dw_from_box_office.                          *)

\* SELECT Movie_SK FROM Dim_Movie WHERE Movie_Title_Source = :title AND
\* Release_Year = :year, .scalar(): 0 when no row matches (the source data
\* used here never gives two movies the same title and year).
\* The same SELECT with WHERE Movie_Title_Source = :title alone.
MovieSkByTitle(t, title, year) ==
    LET hit == {r \in t.db.Dim_Movie : r.Movie_Title_Source = title}
    IN  IF hit = {} THEN 0 ELSE (CHOOSE r \in hit : TRUE).Movie_SK

MovieSkByTitleYear(t, title, year) ==
    LET hit == {r \in t.db.Dim_Movie :
                    r.Movie_Title_Source = title /\ r.Release_Year = Num(year)}
    IN  IF hit = {} THEN 0 ELSE (CHOOSE r \in hit : TRUE).Movie_SK

\* The same UPDATE without COALESCE: SET Distributor = :dist, Genre = :genre.
EnrichDimMovie_NoCoalesce(t, sk, dist, genre) ==
    [t EXCEPT !.db.Dim_Movie =
        {IF r.Movie_SK = sk
         THEN [r EXCEPT !.Distributor = dist, !.Genre = genre]
         ELSE r : r \in @}]

\* UPDATE Dim_Movie SET Distributor = COALESCE(:dist, Distributor),
\* Genre = COALESCE(:genre, Genre) WHERE Movie_SK = :sk
EnrichDimMovie(t, sk, dist, genre) ==
    [t EXCEPT !.db.Dim_Movie =
        {IF r.Movie_SK = sk
         THEN [r EXCEPT !.Distributor = Coalesce(dist, @),
                        !.Genre = Coalesce(genre, @)]
         ELSE r : r \in @}]

\* UPDATE Fact_Book_Adaptation SET Box_Office_Gross = :gross,
\* Tickets_Sold = :tickets WHERE Movie_SK = :sk
EnrichFactGross(t, sk, gross, tickets) ==
    [t EXCEPT !.db.Fact_Book_Adaptation =
        {IF f.Movie_SK = sk
         THEN [f EXCEPT !.Box_Office_Gross = gross, !.Tickets_Sold = tickets]
         ELSE f : f \in @}]

\* load_dw_from_box_office on warehouse db0.  failAt = k > 0 makes the store
\* raise on the statements of row k; nothing catches it, so the whole run is
\* rolled back.
load_dw_from_box_office(db0, rows, failAt) ==
    LET Step(a, r) ==
            LET release_date == _coerce_date(r.release_date)
                movie_sk == MovieSkByTitleYear(a.t, r.movie, release_date.y)
                t1 == EnrichDimMovie(a.t, movie_sk, r.distributor, r.genre)
                t2 == EnrichFactGross(t1, movie_sk, _clean_currency(r.gross),
                        _safe_int(Str(Remove(PyStr(r.tickets), ","))))
                touched == \E f \in a.t.db.Fact_Book_Adaptation : f.Movie_SK = movie_sk
            IN  IF IsNull(r.movie) \/ ~Truthy(release_date)
                THEN [a EXCEPT !.skipped_rows = @ + 1]
                ELSE IF movie_sk # 0
                THEN [t |-> t2, updated_dims |-> a.updated_dims + 1,
                      updated_facts |-> a.updated_facts + (IF touched THEN 1 ELSE 0),
                      skipped_rows |-> a.skipped_rows]
                ELSE [a EXCEPT !.skipped_rows = @ + 1]
        loop == Fold(Step, [t |-> [db |-> db0], updated_dims |-> 0,
                            updated_facts |-> 0, skipped_rows |-> 0], rows)
        raised == failAt \in 1..Len(rows)
    IN  [db |-> IF raised THEN db0 ELSE loop.t.db,
         out |-> [status |-> IF raised THEN "raised" ELSE "committed",
                  updated_dims |-> loop.updated_dims,
                  updated_facts |-> loop.updated_facts,
                  skipped_rows |-> loop.skipped_rows]]

-----------------------------------------------------------------------------
(* Bulk actor load: load_dw_from_imdb_actors.  A source is the TSV cut into *)
(* chunks.                                                                  *)

\* A plain INSERT INTO Dim_Actor: every staged row becomes a new row.
UpsertDimActorBulk_InsertOnly(t, r) ==
    [db |-> [t.db EXCEPT !.Dim_Actor = @ \cup
                {[Actor_SK |-> t.seq.actor + 1, Actor_ID_Source |-> r.nconst,
                  Name |-> r.primaryName, Birth_Year |-> r.birthYear,
                  Popularity_Score |-> Null]}],
     seq |-> [t.seq EXCEPT !.actor = @ + 1]]

\* INSERT INTO Dim_Actor (...) SELECT ... FROM temp_actors ON CONFLICT
\* (Actor_ID_Source) DO UPDATE SET Name, Birth_Year = EXCLUDED.*: one row of
\* the set-based statement.
UpsertDimActorBulk(t, r) ==
    LET hit == {x \in t.db.Dim_Actor : x.Actor_ID_Source = r.nconst}
        n == t.seq.actor + 1
        row == [Actor_SK |-> n, Actor_ID_Source |-> r.nconst, Name |-> r.primaryName,
                Birth_Year |-> r.birthYear, Popularity_Score |-> Null]
        upd == {[x EXCEPT !.Name = r.primaryName, !.Birth_Year = r.birthYear] : x \in hit}
    IN  [db |-> [t.db EXCEPT !.Dim_Actor =
                    IF hit = {} THEN @ \cup {row} ELSE (@ \ hit) \cup upd],
         seq |-> [t.seq EXCEPT !.actor = n]]

\* A loader that stages the chunk as it was read.
DropNullNames_KeepAll(chunk) == chunk

\* chunk_df.dropna(subset=['name'])
DropNullNames(chunk) == SelectSeq(chunk, LAMBDA r : NotNa(r.primaryName))

\* INSERT ... SELECT FROM temp_actors ON CONFLICT DO UPDATE raises when the
\* staged rows name one actor twice (the command cannot affect a row a
\* second time).
NamesAnActorTwice(chunk_df) ==
    \E x, y \in 1..Len(chunk_df) : x # y /\ chunk_df[x].nconst = chunk_df[y].nconst

\* A chunk loop whose failing chunk keeps what its statement had written.
ActorChunk_NoRollback(failAt, a, i, chunk, chunk_df) ==
    [t |-> Fold(UpsertDimActorBulk, a.t, chunk_df),
     failed |-> IF i = failAt \/ NamesAnActorTwice(chunk_df)
                THEN a.failed \cup {i} ELSE a.failed,
     dropped |-> Append(a.dropped, Len(chunk) - Len(chunk_df)),
     total_rows_processed |-> a.total_rows_processed + Len(chunk_df)]

\* One pass of `for chunk_df in chunk_iter`: chunk is the chunk as read,
\* chunk_df the chunk after cleaning.  The chunk's transaction commits, or
\* it is rolled back (the keys drawn by the failing statement stay drawn),
\* the error is printed and the loop continues.
ActorChunk(failAt, a, i, chunk, chunk_df) ==
    IF i = failAt
    THEN [a EXCEPT !.failed = @ \cup {i},
                   !.dropped = Append(@, Len(chunk) - Len(chunk_df))]
    ELSE IF NamesAnActorTwice(chunk_df)
    THEN [a EXCEPT !.failed = @ \cup {i},
                   !.dropped = Append(@, Len(chunk) - Len(chunk_df)),
                   !.t.seq = Fold(UpsertDimActorBulk, a.t, chunk_df).seq]
    ELSE [t |-> Fold(UpsertDimActorBulk, a.t, chunk_df), failed |-> a.failed,
          dropped |-> Append(a.dropped, Len(chunk) - Len(chunk_df)),
          total_rows_processed |-> a.total_rows_processed + Len(chunk_df)]

\* load_dw_from_imdb_actors on warehouse (db0, seq0).  failAt = k > 0 makes
\* the store raise in the transaction of chunk k, before its upsert.
load_dw_from_imdb_actors(db0, seq0, chunks, failAt) ==
    LET Step(a, i) == ActorChunk(failAt, a, i, chunks[i], DropNullNames(chunks[i]))
        loop == Fold(Step, [t |-> [db |-> db0, seq |-> seq0], failed |-> {},
                            dropped |-> <<>>, total_rows_processed |-> 0],
                     [i \in 1..Len(chunks) |-> i])
    IN  [db |-> loop.t.db, seq |-> loop.t.seq,
         out |-> [status |-> IF loop.failed = {} THEN "committed" ELSE "partial",
                  failed |-> loop.failed, dropped |-> loop.dropped,
                  total_rows_processed |-> loop.total_rows_processed]]

-----------------------------------------------------------------------------
(* Remote enrichment: tmdb_loader.py.  The remote service is a record       *)
(* [find, movie, person] of dicts: find maps an external id to the ids in   *)
(* movie_results / person_results, movie and person map a TMDb id to its    *)
(* details; `fails` is the number of failing responses (HTTP error,         *)
(* timeout) the service gives before it answers, `garbled` the number of    *)
(* responses with an undecodable body it gives after those.  An id the      *)
(* service does not know has no find results and no details page (HTTP 404).*)

MaxAttempts == 3

StartsWith(c, p) == Len(c) >= Len(p) /\ SubSeq(c, 1, Len(p)) = p

\* str.zfill(n)
RECURSIVE ZFill(_, _)
ZFill(c, n) == IF Len(c) >= n THEN c ELSE ZFill(<<"0">> \o c, n)

IsDigits(c) == c # <<>> /\ \A i \in 1..Len(c) : IsDigit(c[i])

\* The prefixing of _get_tmdb_id for external_source_type 'imdb_id'.
ExternalId(c) ==
    IF ~StartsWith(c, <<"t", "t">>) /\ ~StartsWith(c, <<"n", "m">>)
    THEN IF Len(c) >= 7 /\ IsDigits(c)
         THEN <<"n", "m">> \o ZFill(c, 7)
         ELSE <<"t", "t">> \o ZFill(c, 7)
    ELSE IF StartsWith(c, <<"t", "t">>) /\ Len(c) < 9
    THEN <<"t", "t">> \o ZFill(SubSeq(c, 3, Len(c)), 7)
    ELSE IF StartsWith(c, <<"n", "m">>) /\ Len(c) < 9
    THEN <<"n", "m">> \o ZFill(SubSeq(c, 3, Len(c)), 7)
    ELSE c

\* A retry loop that sleeps the same 5 seconds after every failure.
BackoffWaits_Flat(failed) ==
    [a \in 1..(IF failed < MaxAttempts THEN failed ELSE MaxAttempts - 1) |-> 5]

\* The waits of a retry loop that saw `failed` failing attempts:
\* (attempt + 1) * 5 seconds after each failure but the last allowed one.
BackoffWaits(failed) ==
    [a \in 1..(IF failed < MaxAttempts THEN failed ELSE MaxAttempts - 1) |-> a * 5]

NoFind ==
    [fails |-> 0, garbled |-> 0, movie_results |-> Null, person_results |-> Null]

\* The leading attempts of a call that end in `except
\* requests.exceptions.RequestException`: the failing responses and, since
\* requests.exceptions.JSONDecodeError derives from RequestException and
\* that clause comes first, the undecodable ones as well.
RetriedFailures(resp) == resp.fails + resp.garbled

\* What one retry loop does, in order: a request per attempt and the
\* time.sleep (in tenths of a second) after each failure but the last
\* allowed one.
RetryEvents(e, sk, requests, waits) ==
    LET Step(t, k) ==
            Append(t, [e |-> e, sk |-> sk, n |-> k]) \o
            (IF k <= Len(waits) THEN <<[e |-> "wait", sk |-> sk, n |-> waits[k] * 10]>>
             ELSE <<>>)
    IN  Fold(Step, <<>>, [k \in 1..requests |-> k])

\* time.sleep(0.2) after a row's update.
PoliteDelay(sk) == <<[e |-> "pause", sk |-> sk, n |-> 2]>>

\* What the retry loop of _get_tmdb_id returns for the response script
\* `resp` of the id `ext`: the first entry of person_results for an "nm"
\* id, of movie_results otherwise.
FindOutcome(external_id, ext, resp) ==
    IF external_id = <<>>
    THEN [tmdb_id |-> Null, requests |-> 0, waits |-> <<>>, ext |-> ext]
    ELSE IF RetriedFailures(resp) >= MaxAttempts
    THEN [tmdb_id |-> Null, requests |-> MaxAttempts,
          waits |-> BackoffWaits(RetriedFailures(resp)), ext |-> ext]
    ELSE [tmdb_id |-> IF StartsWith(ext, <<"n", "m">>) THEN resp.person_results
                      ELSE resp.movie_results,
          requests |-> RetriedFailures(resp) + 1,
          waits |-> BackoffWaits(RetriedFailures(resp)), ext |-> ext]

FindCall(world, external_id, ext) ==
    FindOutcome(external_id, ext, DictGet(world.find, ext, NoFind))

\* _get_tmdb_id(external_id, 'imdb_id'): the id found (Null for None), the
\* number of requests made and the waits between them.
_get_tmdb_id(world, external_id) ==
    FindCall(world, external_id, ExternalId(external_id))

\* The rows of a table in the order the loop visits them (by surrogate key).
RECURSIVE MoviesBySk(_)
MoviesBySk(S) ==
    IF S = {} THEN <<>>
    ELSE LET m == CHOOSE x \in S : \A y \in S : x.Movie_SK <= y.Movie_SK
         IN  <<m>> \o MoviesBySk(S \ {m})

RECURSIVE ActorsBySk(_)
ActorsBySk(S) ==
    IF S = {} THEN <<>>
    ELSE LET m == CHOOSE x \in S : \A y \in S : x.Actor_SK <= y.Actor_SK
         IN  <<m>> \o ActorsBySk(S \ {m})

\* The two UPDATEs of one movie's transaction.
EnrichMovieFromTmdb(db0, movie_sk, data) ==
    LET pop == _safe_float(data.popularity, Null, Null)
        budget == _safe_int(data.budget)
        revenue == _safe_int(data.revenue)
        profit == ProfitOf(budget, revenue)
        roi == RoiTmdb(profit, budget)
    IN  [db0 EXCEPT
            !.Dim_Movie = {IF r.Movie_SK = movie_sk
                           THEN [r EXCEPT !.TMDb_Popularity = pop] ELSE r : r \in @},
            !.Fact_Book_Adaptation =
                {IF f.Movie_SK = movie_sk
                 THEN [f EXCEPT !.Production_Budget = budget,
                                !.Box_Office_Gross = revenue,
                                !.Profit = profit, !.ROI = roi]
                 ELSE f : f \in @}]

\* The failing attempts of the details request for the id a find returned:
\* an id without a details page answers 404 every time.
DetailFailures(details, tmdb_id) ==
    IF DictHas(details, tmdb_id.v)
    THEN RetriedFailures(DictGet(details, tmdb_id.v, Null))
    ELSE MaxAttempts

\* The details retry loop of one row: its requests and waits.
DetailEvents(sk, failures) ==
    RetryEvents("details", sk,
                IF failures >= MaxAttempts THEN MaxAttempts ELSE failures + 1,
                BackoffWaits(failures))

\* The loop's state after the _get_tmdb_id call of row sk.
Looked(a, sk, found) ==
    [a EXCEPT !.calls = Append(@, [sk |-> sk, ext |-> found.ext,
                                   requests |-> found.requests,
                                   waits |-> found.waits,
                                   found |-> Truthy(found.tmdb_id)]),
              !.trace = @ \o RetryEvents("find", sk, found.requests, found.waits)]

\* The try block of one movie row after its details retry loop saw
\* `failures` failing attempts.
MovieFetched(world, storeFails, a, sk, tmdb_id, failures) ==
    IF failures >= MaxAttempts \/ storeFails
    THEN [a EXCEPT !.failed = @ \cup {sk},
                   !.trace = @ \o DetailEvents(sk, failures)]
    ELSE [a EXCEPT
            !.db = EnrichMovieFromTmdb(@, sk, DictGet(world.movie, tmdb_id.v, Null)),
            !.applied = @ \cup {sk},
            !.movies_updated = @ +
                (IF \E f \in a.db.Fact_Book_Adaptation : f.Movie_SK = sk
                 THEN 1 ELSE 0),
            !.trace = @ \o DetailEvents(sk, failures) \o PoliteDelay(sk)]

MovieVisit(world, storeFails, a, sk, found) ==
    IF ~Truthy(found.tmdb_id) THEN Looked(a, sk, found)
    ELSE MovieFetched(world, storeFails, Looked(a, sk, found), sk, found.tmdb_id,
                      DetailFailures(world.movie, found.tmdb_id))

\* One pass of `for movie_sk, movie_id_source in movies_to_check`.  failAt =
\* i makes the store raise in this row's `with c.begin()`.
MovieStep(world, failAt, movies_to_check, a, i) ==
    MovieVisit(world, i = failAt, a, movies_to_check[i].Movie_SK,
               _get_tmdb_id(world, movies_to_check[i].Movie_ID_Source.c))

\* load_dynamic_movie_data on warehouse db0.  A row whose lookup finds
\* nothing, whose retries are exhausted or whose transaction fails is
\* skipped (`continue`) and the loop goes on to the final summary.
load_dynamic_movie_data(db0, world, failAt) ==
    LET movies_to_check == MoviesBySk(db0.Dim_Movie)
        Step(a, i) == MovieStep(world, failAt, movies_to_check, a, i)
        loop == Fold(Step, [db |-> db0, failed |-> {}, applied |-> {},
                            movies_updated |-> 0, calls |-> <<>>, trace |-> <<>>],
                     [i \in 1..Len(movies_to_check) |-> i])
    IN  [db |-> loop.db,
         out |-> [status |-> IF loop.failed = {} THEN "committed" ELSE "partial",
                  failed |-> loop.failed, applied |-> loop.applied,
                  movies_updated |-> loop.movies_updated,
                  calls |-> loop.calls, trace |-> loop.trace]]

\* The try block of one actor row after its details retry loop.
ActorFetched(world, storeFails, a, sk, tmdb_id, failures) ==
    IF failures >= MaxAttempts \/ storeFails
    THEN [a EXCEPT !.failed = @ \cup {sk},
                   !.trace = @ \o DetailEvents(sk, failures)]
    ELSE [a EXCEPT
            !.db.Dim_Actor =
                {IF r.Actor_SK = sk
                 THEN [r EXCEPT !.Popularity_Score = _safe_float(
                            DictGet(world.person, tmdb_id.v, Null).popularity,
                            Null, Null)]
                 ELSE r : r \in @},
            !.applied = @ \cup {sk},
            !.trace = @ \o DetailEvents(sk, failures) \o PoliteDelay(sk)]

ActorVisit(world, storeFails, a, sk, found) ==
    IF ~Truthy(found.tmdb_id) THEN Looked(a, sk, found)
    ELSE ActorFetched(world, storeFails, Looked(a, sk, found), sk, found.tmdb_id,
                      DetailFailures(world.person, found.tmdb_id))

\* A loop that ends at the first row it could not enrich.
ActorStep_StopAtFailure(world, failAt, actors_to_check, a, i) ==
    IF a.failed # {} \/ \E c \in Range(a.calls) : ~c.found THEN a
    ELSE ActorVisit(world, i = failAt, a, actors_to_check[i].Actor_SK,
                    _get_tmdb_id(world, actors_to_check[i].Actor_ID_Source.c))

\* One pass of `for actor_sk, actor_id_source in actors_to_check`.
ActorStep(world, failAt, actors_to_check, a, i) ==
    ActorVisit(world, i = failAt, a, actors_to_check[i].Actor_SK,
               _get_tmdb_id(world, actors_to_check[i].Actor_ID_Source.c))

\* load_dynamic_actor_data: the same loop over the actors that have a
\* bridge row, writing Popularity_Score.
load_dynamic_actor_data(db0, world, failAt) ==
    LET actors_to_check ==
            ActorsBySk({r \in db0.Dim_Actor :
                \E b \in db0.Bridge_Movie_Actor : b.Actor_SK = r.Actor_SK})
        Step(a, i) == ActorStep(world, failAt, actors_to_check, a, i)
        loop == Fold(Step, [db |-> db0, failed |-> {}, applied |-> {},
                            calls |-> <<>>, trace |-> <<>>],
                     [i \in 1..Len(actors_to_check) |-> i])
    IN  [db |-> loop.db,
         out |-> [status |-> IF loop.failed = {} THEN "committed" ELSE "partial",
                  failed |-> loop.failed, applied |-> loop.applied,
                  calls |-> loop.calls, trace |-> loop.trace]]

-----------------------------------------------------------------------------
(* Source data the stages are run on *)

TT_MATRIX == <<"t", "t", "0", "1", "3", "3", "0", "9", "3">>
TT_DUNE == <<"t", "t", "0", "0", "8", "7", "1", "8", "2">>
NM_REEVES == <<"n", "m", "0", "0", "0", "0", "2", "0", "6">>
NM_MOSS == <<"n", "m", "0", "0", "0", "5", "2", "5", "1">>

BookRow(id, title, author, rating, count) ==
    [goodreads_book_id |-> id, title |-> title, author |-> author,
     avg_rating |-> rating, rating_count |-> count]

MovieRow(imdbid, tmdbid, title, rdate, dist, budget, revenue) ==
    [imdbid |-> imdbid, tmdbid |-> tmdbid, title |-> title,
     release_date |-> rdate, year |-> Null, averagerating |-> Num(87),
     distributor |-> dist, budget |-> budget, revenue |-> revenue]

PersonRow(tconst, nconst, name, category, role) ==
    [tconst |-> tconst, nconst |-> nconst, primaryname |-> name,
     category |-> category, role |-> role]

LinkRow(book, imdb, tmdb) ==
    [goodreads_book_id |-> book, imdb_id |-> imdb, tmdb_id |-> tmdb]

MatrixPeople ==
    <<PersonRow(Str(TT_MATRIX), Str(<<"n", "m", "9">>), Txt("Wachowski"),
                Txt("director"), Null),
      PersonRow(Str(TT_MATRIX), Str(NM_REEVES), Txt("Keanu Reeves"),
                Txt("actor"), Txt("Neo"))>>

\* The scenario of the specification: one book, one movie without financial
\* columns, one link.
SrcMatrix ==
    [books |-> <<BookRow(Num(123), Txt("Neuromancer"), Null, Num(39), Num(7))>>,
     movies |-> <<MovieRow(Str(TT_MATRIX), Num(603), Txt("The Matrix"),
                           RawDate(1999, 3, 31), Null, Null, Null)>>,
     tmdbmap |-> <<>>,
     genres |-> <<[imdbid |-> Str(TT_MATRIX), genre |-> "Action"]>>,
     people |-> MatrixPeople,
     links |-> <<LinkRow(Num(123), Str(TT_MATRIX), Null)>>]

\* Two books and two movies with budgets and revenues, a repeated link row,
\* a link by TMDb id only and a second cast row for the same pair.
SrcFinance ==
    [books |-> <<BookRow(Num(123), Txt("Neuromancer"), Txt("Gibson"), Num(39), Num(7)),
                 BookRow(Num(456), Txt("Dune"), Txt("Herbert"), Num(51), Num(9))>>,
     movies |-> <<MovieRow(Str(TT_MATRIX), Num(603), Txt("The Matrix"),
                           RawDate(1999, 3, 31), Txt("Village"), Num(0), Num(5)),
                  MovieRow(Str(TT_DUNE), Num(841), Txt("Dune"),
                           Num(1984), Null, Num(2), Num(5))>>,
     tmdbmap |-> <<[tmdbid |-> Num(841), imdbid |-> Str(TT_DUNE)]>>,
     genres |-> <<[imdbid |-> Str(TT_MATRIX), genre |-> "Action"],
                  [imdbid |-> Str(TT_MATRIX), genre |-> "Sci-Fi"]>>,
     people |-> MatrixPeople \o
                <<PersonRow(Str(TT_MATRIX), Str(NM_REEVES), Txt("Keanu Reeves"),
                            Txt("actor"), Txt("Thomas Anderson")),
                  PersonRow(Str(TT_MATRIX), Str(NM_MOSS), Txt("Carrie-Anne Moss"),
                            Txt("actress"), Txt("Trinity"))>>,
     links |-> <<LinkRow(Num(456), Null, Num(841)),
                 LinkRow(Num(123), Str(TT_MATRIX), Null),
                 LinkRow(Num(123), Str(TT_MATRIX), Null)>>]

\* The Matrix again from a sparser snapshot: no book row, no title, no cast,
\* a negative budget.
SrcSparse ==
    [books |-> <<>>,
     movies |-> <<MovieRow(Str(TT_MATRIX), Null, Null, RawText(Num(1999)),
                           Null, Num(-1), Num(1))>>,
     tmdbmap |-> <<>>, genres |-> <<>>, people |-> <<>>,
     links |-> <<LinkRow(Str(<<" ", "1", "2", "3">>), Str(TT_MATRIX), Null),
                 LinkRow(Null, Str(TT_DUNE), Null)>>]

LinkSources == <<SrcMatrix, SrcFinance, SrcSparse>>

CsvBook(id, title, authors, publisher, rating, count) ==
    [bookid |-> id, title |-> title, authors |-> authors, publisher |-> publisher,
     average_rating |-> rating, ratings_count |-> count,
     text_reviews_count |-> Num(3)]

CsvNeuromancer ==
    <<CsvBook(Num(123), Txt("Neuromancer"), Txt("William Gibson"), Txt("Ace"),
              Num(40), Num(11))>>

CsvTwoBooks ==
    <<CsvBook(Num(456), Txt("Dune"), Null, Txt("Chilton"), Num(50), Num(12)),
      CsvBook(Num(123), Txt("Neuromancer"), Txt("Gibson"), Null, Num(51), Null)>>

BookSources == <<CsvNeuromancer, CsvTwoBooks>>

BoxRow(movie, rdate, dist, genre, gross, tickets) ==
    [movie |-> movie, release_date |-> rdate, distributor |-> dist,
     genre |-> genre, gross |-> gross, tickets |-> tickets]

\* The enrichment row of the specification's scenario: gross "$465,000,000",
\* tickets "12,345,678", no genre column.
BoxMatrix ==
    <<BoxRow(Txt("The Matrix"), RawDate(1999, 3, 31), Txt("Warner Bros"), Null,
             Str(<<"$", "4", "6", "5", ",", "0", "0", "0", ",", "0", "0", "0">>),
             Str(<<"1", "2", ",", "3", "4", "5", ",", "6", "7", "8">>))>>

BoxMixed ==
    <<BoxRow(Txt("Dune"), RawText(Num(1984)), Null, Txt("Epic"),
             Str(<<"$", "9">>), Null),
      BoxRow(Txt("The Matrix"), RawText(Num(1999)), Txt("Roadshow"), Txt("Thriller"),
             Str(<<"$", "7">>), Str(<<"3">>)),
      BoxRow(Txt("Solaris"), RawDate(1972, 3, 20), Txt("Mosfilm"), Null,
             Str(<<"$", "1">>), Null)>>

BoxSources == <<BoxMatrix, BoxMixed>>

TsvActor(nconst, name, birth) ==
    [nconst |-> nconst, primaryName |-> name, birthYear |-> birth]

TsvTwoChunks ==
    <<<<TsvActor(Str(NM_REEVES), Txt("Keanu Reeves"), Num(1964)),
        TsvActor(Str(<<"n", "m", "7">>), Null, Num(1970))>>,
      <<TsvActor(Str(NM_MOSS), Txt("Carrie-Anne Moss"), Num(1967))>>>>

TsvRenamed ==
    <<<<TsvActor(Str(NM_REEVES), Txt("Keanu C. Reeves"), Null)>>>>

ActorSources == <<TsvTwoChunks, TsvRenamed>>

\* What _get_tmdb_id asks the service for the two movie keys.
NM_0133093 == <<"n", "m", "0", "1", "3", "3", "0", "9", "3">>
NM_0087182 == <<"n", "m", "0", "0", "8", "7", "1", "8", "2">>

Found(fails, movie, person) ==
    [fails |-> fails, garbled |-> 0, movie_results |-> movie,
     person_results |-> person]

Details(fails, pop, budget, revenue) ==
    [fails |-> fails, garbled |-> 0, popularity |-> pop, budget |-> budget,
     revenue |-> revenue]

PersonDetails(fails, pop) == [fails |-> fails, garbled |-> 0, popularity |-> pop]

WorldA ==
    [find |-> << <<NM_0133093, Found(0, Null, Num(77))>>,
                 <<NM_REEVES, Found(1, Null, Num(6384))>> >>,
     movie |-> << <<77, Details(0, Num(9), Num(3), Num(8))>> >>,
     person |-> << <<6384, PersonDetails(0, Num(30))>> >>]

WorldB ==
    [find |-> << <<NM_0133093, Found(2, Null, Num(78))>>,
                 <<NM_0087182, Found(0, Null, Num(80))>>,
                 <<NM_REEVES, Found(3, Null, Num(6384))>>,
                 <<NM_MOSS, Found(0, Null, Num(530))>> >>,
     movie |-> << <<78, Details(1, Null, Num(0), Num(4))>>,
                  <<80, Details(0, Num(5), Num(-2), Num(2))>> >>,
     person |-> << <<530, PersonDetails(0, Num(12))>> >>]

Worlds == <<WorldA, WorldB>>

-----------------------------------------------------------------------------
(* The runs: each action is one stage run of main.py on one source.  hist   *)
(* records the runs made and what each returned, prev the warehouse before  *)
(* the last run.                                                            *)

MaxRuns == 3

\* No store failure (0), or a failure on the second unit of the run.
FailPoints == {0, 2}

Init ==
    /\ db = EmptyDb
    /\ seq = EmptySeq
    /\ hist = <<>>
    /\ prev = EmptyDb

Last == hist[Len(hist)]

Record(op, i, failAt, r) ==
    /\ Len(hist) < MaxRuns
    /\ db' = r.db
    /\ prev' = db
    /\ hist' = Append(hist, [op |-> op, arg |-> i, failAt |-> failAt, out |-> r.out])

\* One run of load_dw_from_books_csv (main --books).
RunBooks ==
    \E i \in 1..Len(BookSources) :
    \E failAt \in {k \in FailPoints : k <= Len(BookSources[i])} :
        LET r == load_dw_from_books_csv(db, seq, BookSources[i], failAt)
        IN  Record("books", i, failAt, r) /\ seq' = r.seq

\* One run of load_dw_from_bfr (main --bfr).
RunLinks ==
    \E i \in 1..Len(LinkSources) :
    \E failAt \in {k \in FailPoints : k <= Len(LinkPairs(LinkSources[i]))} :
        LET r == load_dw_from_bfr(db, seq, LinkSources[i], failAt)
        IN  Record("links", i, failAt, r) /\ seq' = r.seq

\* One run of load_dw_from_box_office (main --boxOffice).
RunBoxOffice ==
    \E i \in 1..Len(BoxSources) :
    \E failAt \in {k \in FailPoints : k <= Len(BoxSources[i])} :
        LET r == load_dw_from_box_office(db, BoxSources[i], failAt)
        IN  Record("box_office", i, failAt, r) /\ seq' = seq

\* One run of load_dw_from_imdb_actors.
RunActors ==
    \E i \in 1..Len(ActorSources) :
    \E failAt \in {k \in FailPoints : k <= Len(ActorSources[i])} :
        LET r == load_dw_from_imdb_actors(db, seq, ActorSources[i], failAt)
        IN  Record("actors", i, failAt, r) /\ seq' = r.seq

\* One run of load_dynamic_movie_data.
RunTmdbMovies ==
    \E i \in 1..Len(Worlds) :
    \E failAt \in {k \in FailPoints : k <= Cardinality(db.Dim_Movie)} :
        LET r == load_dynamic_movie_data(db, Worlds[i], failAt)
        IN  Record("tmdb_movies", i, failAt, r) /\ seq' = seq

\* One run of load_dynamic_actor_data.
RunTmdbActors ==
    \E i \in 1..Len(Worlds) :
        LET r == load_dynamic_actor_data(db, Worlds[i], 0)
        IN  Record("tmdb_actors", i, 0, r) /\ seq' = seq

Next ==
    \/ RunBooks
    \/ RunLinks
    \/ RunBoxOffice
    \/ RunActors
    \/ RunTmdbMovies
    \/ RunTmdbActors

Spec == Init /\ [][Next]_vars

-----------------------------------------------------------------------------
(* Further source data: a books file that names one book twice, a snapshot  *)
(* whose cast table carries a title id in the person column, a service that *)
(* answers with undecodable bodies.  SpecEdge runs the stages on these and  *)
(* on the sources above.                                                    *)

CsvRepeatedKey ==
    <<CsvBook(Num(123), Txt("Neuromancer"), Txt("William Gibson"), Txt("Ace"),
              Num(40), Num(11)),
      CsvBook(Num(123), Txt("Neuromancer"), Txt("William Gibson"), Txt("Ace"),
              Num(41), Num(12))>>

\* A row whose bookID is the text "no", followed by an ordinary row.
CsvBadId ==
    <<CsvBook(Str(<<"n", "o">>), Txt("Untitled"), Null, Null, Num(30), Num(1)),
      CsvBook(Num(456), Txt("Dune"), Txt("Herbert"), Txt("Chilton"), Num(42), Num(9))>>

AllBookSources == BookSources \o <<CsvRepeatedKey, CsvBadId>>

SrcCrossType ==
    [SrcMatrix EXCEPT !.people = MatrixPeople \o
        <<PersonRow(Str(TT_MATRIX), Str(TT_DUNE), Txt("Dune"), Txt("actor"), Null),
          PersonRow(Str(TT_MATRIX), Str(NM_MOSS), Txt("Carrie-Anne Moss"),
                    Txt("actress"), Txt("Trinity"))>>]

\* Ratings at and beyond the ends of their ranges: a book rated 0.0 and a
\* book rated 5.1, a movie rated 10.0 and a movie rated 10.1.
SrcRatings ==
    [books |-> <<BookRow(Num(123), Txt("Neuromancer"), Null, Num(0), Num(7)),
                 BookRow(Num(456), Txt("Dune"), Null, Num(51), Num(9))>>,
     movies |-> <<[MovieRow(Str(TT_MATRIX), Num(603), Txt("The Matrix"),
                            RawDate(1999, 3, 31), Null, Null, Null)
                        EXCEPT !.averagerating = Num(100)],
                  [MovieRow(Str(TT_DUNE), Num(841), Txt("Dune"),
                            Num(1984), Null, Null, Null)
                        EXCEPT !.averagerating = Num(101)]>>,
     tmdbmap |-> <<>>, genres |-> <<>>,
     people |-> <<PersonRow(Str(TT_MATRIX), Str(NM_REEVES), Txt("Keanu Reeves"),
                            Txt("actor"), Txt("The One"))>>,
     links |-> <<LinkRow(Num(123), Str(TT_MATRIX), Null),
                 LinkRow(Num(456), Str(TT_DUNE), Null)>>]

AllLinkSources == LinkSources \o <<SrcCrossType, SrcRatings>>

\* Three chunks: the second names one actor twice, so its upsert fails.
TsvThreeChunks ==
    <<<<TsvActor(Str(NM_REEVES), Txt("Keanu Reeves"), Num(1964)),
        TsvActor(Str(<<"n", "m", "7">>), Null, Num(1970))>>,
      <<TsvActor(Str(NM_MOSS), Txt("Carrie-Anne Moss"), Num(1967)),
        TsvActor(Str(NM_MOSS), Txt("Carrie Anne Moss"), Null)>>,
      <<TsvActor(Str(<<"n", "m", "8">>), Txt("Hugo Weaving"), Num(1960)),
        TsvActor(Str(<<"n", "m", "9">>), Null, Null)>>>>

AllActorSources == ActorSources \o <<TsvThreeChunks>>

WithGarbled(resp, n) == [resp EXCEPT !.garbled = n]

WorldGarbled ==
    [find |-> << <<NM_0133093, WithGarbled(Found(0, Null, Num(77)), 1)>>,
                 <<NM_0087182, WithGarbled(Found(0, Null, Num(80)), 3)>>,
                 <<NM_REEVES, Found(0, Null, Num(6384))>>,
                 <<NM_MOSS, WithGarbled(Found(1, Null, Num(530)), 1)>>,
                 <<TT_DUNE, Found(0, Num(80), Null)>> >>,
     movie |-> << <<77, WithGarbled(Details(0, Num(9), Num(3), Num(8)), 2)>> >>,
     person |-> << <<6384, WithGarbled(PersonDetails(0, Num(30)), 1)>>,
                   <<530, PersonDetails(0, Num(12))>>,
                   <<80, PersonDetails(0, Num(44))>> >>]

AllWorlds == Worlds \o <<WorldGarbled>>

MaxEdgeRuns == 2

EdgeBooks ==
    /\ Len(hist) < MaxEdgeRuns
    /\ \E i \in 1..Len(AllBookSources) :
       \E failAt \in {k \in FailPoints : k <= Len(AllBookSources[i])} :
            LET r == load_dw_from_books_csv(db, seq, AllBookSources[i], failAt)
            IN  Record("books", i, failAt, r) /\ seq' = r.seq

EdgeLinks ==
    /\ Len(hist) < MaxEdgeRuns
    /\ \E i \in 1..Len(AllLinkSources) :
       \E failAt \in {k \in FailPoints : k <= Len(LinkPairs(AllLinkSources[i]))} :
            LET r == load_dw_from_bfr(db, seq, AllLinkSources[i], failAt)
            IN  Record("links", i, failAt, r) /\ seq' = r.seq

\* A box-office file with a row without a title, a row whose date does not
\* parse, a row for another year of a stored title, and a row that matches.
BoxGaps ==
    <<BoxRow(Null, RawDate(1999, 3, 31), Txt("Nobody"), Txt("Drama"),
             Str(<<"$", "5">>), Null),
      BoxRow(Txt("The Matrix"), RawText(Txt("soon")), Txt("Nobody"), Txt("Drama"),
             Str(<<"$", "5">>), Null),
      BoxRow(Txt("The Matrix"), RawDate(2003, 5, 15), Txt("Nobody"), Txt("Drama"),
             Str(<<"$", "5">>), Null),
      BoxRow(Txt("The Matrix"), RawDate(1999, 3, 31), Txt("Warner Bros"), Null,
             Str(<<"$", "7">>), Str(<<"3">>))>>

AllBoxSources == BoxSources \o <<BoxGaps>>

EdgeBoxOffice ==
    /\ Len(hist) < MaxEdgeRuns
    /\ \E i \in 1..Len(AllBoxSources) :
       \E failAt \in {k \in FailPoints : k <= Len(AllBoxSources[i])} :
            LET r == load_dw_from_box_office(db, AllBoxSources[i], failAt)
            IN  Record("box_office", i, failAt, r) /\ seq' = seq

EdgeActors ==
    /\ Len(hist) < MaxEdgeRuns
    /\ \E i \in 1..Len(AllActorSources) :
       \E failAt \in {k \in FailPoints : k <= Len(AllActorSources[i])} :
            LET r == load_dw_from_imdb_actors(db, seq, AllActorSources[i], failAt)
            IN  Record("actors", i, failAt, r) /\ seq' = r.seq

EdgeTmdbMovies ==
    /\ Len(hist) < MaxEdgeRuns
    /\ \E i \in 1..Len(AllWorlds) :
       \E failAt \in {k \in FailPoints : k <= Cardinality(db.Dim_Movie)} :
            LET r == load_dynamic_movie_data(db, AllWorlds[i], failAt)
            IN  Record("tmdb_movies", i, failAt, r) /\ seq' = seq

EdgeTmdbActors ==
    /\ Len(hist) < MaxEdgeRuns
    /\ \E i \in 1..Len(AllWorlds) :
       \E failAt \in {k \in FailPoints : k <= Cardinality(db.Bridge_Movie_Actor)} :
            LET r == load_dynamic_actor_data(db, AllWorlds[i], failAt)
            IN  Record("tmdb_actors", i, failAt, r) /\ seq' = seq

\* load_dw_from_imdb_actors stopped from outside while the upsert of chunk N
\* runs: chunks 1 .. N - 1 are committed or skipped as usual, the open
\* transaction of chunk N is rolled back (the keys its statement drew stay
\* drawn) and no later chunk is read.
InterruptedActorLoad(db0, seq0, chunks, N) ==
    LET r == load_dw_from_imdb_actors(db0, seq0, SubSeq(chunks, 1, N - 1), 0)
    IN  [db |-> r.db,
         seq |-> Fold(UpsertDimActorBulk, [db |-> r.db, seq |-> r.seq],
                      DropNullNames(chunks[N])).seq,
         out |-> [status |-> "interrupted", failed |-> r.out.failed,
                  total_rows_processed |-> r.out.total_rows_processed]]

\* One run of main --imdb that is stopped in chunk N.
EdgeActorsInterrupted ==
    /\ Len(hist) < MaxEdgeRuns
    /\ \E i \in 1..Len(AllActorSources) : \E N \in 1..Len(AllActorSources[i]) :
            LET r == InterruptedActorLoad(db, seq, AllActorSources[i], N)
            IN  Record("actors_interrupted", i, N, r) /\ seq' = r.seq

\* main.py, lines 2-7: the names the orchestrator imports, and the module it
\* imports each from.
MainImports ==
    <<[module |-> "loaders.books_loader", name |-> "load_dw_from_books_csv"],
      [module |-> "loaders.books_films_reviews_loader", name |-> "load_dw_from_bfr"],
      [module |-> "loaders.tmdb_loader", name |-> "load_tmdb"],
      [module |-> "loaders.imdb_loader", name |-> "load_imdb"],
      [module |-> "loaders.weekend_summary_loader", name |-> "load_weekends"],
      [module |-> "loaders.box_office_loader", name |-> "load_dw_from_box_office"]>>

\* The stage functions each loader module defines.
ModuleDefs(module) ==
    CASE module = "loaders.books_loader" -> {"load_dw_from_books_csv"}
      [] module = "loaders.books_films_reviews_loader" -> {"load_dw_from_bfr"}
      [] module = "loaders.tmdb_loader" ->
            {"_get_tmdb_id", "load_dynamic_movie_data", "load_dynamic_actor_data"}
      [] module = "loaders.imdb_loader" -> {"load_dw_from_imdb_actors"}
      [] module = "loaders.weekend_summary_loader" -> {"load_weekends"}
      [] module = "loaders.box_office_loader" -> {"load_dw_from_box_office"}
      [] OTHER -> {}

\* `from module import name` raises ImportError unless the module defines
\* the name.
ImportsResolve == \A i \in Range(MainImports) : i.name \in ModuleDefs(i.module)

\* The stages of main() that read a configured path, in the order of lines
\* 22-24.
MainStages == <<"books", "bfr", "boxOffice">>

\* The stage function main calls for a flag, on its configured source.
CallStage(stage, db0, seq0) ==
    CASE stage = "books" -> load_dw_from_books_csv(db0, seq0, BookSources[1], 0)
      [] stage = "bfr" -> load_dw_from_bfr(db0, seq0, LinkSources[1], 0)
      [] OTHER -> [seq |-> seq0] @@ load_dw_from_box_office(db0, BoxSources[1], 0)

\* What main has done once a stage function returned r.
StageReturned(a, stage, r) ==
    [db |-> r.db, seq |-> r.seq,
     ran |-> Append(a.ran, [stage |-> stage, status |-> r.out.status])]

\* One `if args.all or args.<stage>: <stage function>()` of main.  A stage
\* that is not selected is passed over; a stage whose path is missing prints
\* and returns before it opens the warehouse; any other stage runs on its
\* configured source.
MainStage(a, stage, args) ==
    IF stage \notin args.sel THEN a
    ELSE IF stage \in args.missing
    THEN [a EXCEPT !.ran = Append(@, [stage |-> stage, status |-> "no_source"])]
    ELSE StageReturned(a, stage, CallStage(stage, a.db, a.seq))

\* main(): lines 22-24, in order.
MainBody(db0, seq0, args) ==
    MainStage(MainStage(MainStage([db |-> db0, seq |-> seq0, ran |-> <<>>],
                                  MainStages[1], args),
                        MainStages[2], args),
              MainStages[3], args)

\* What an invocation leaves once main() has returned.
MainCompleted(done) ==
    [db |-> done.db, seq |-> done.seq,
     out |-> [status |-> "completed", ran |-> done.ran]]

\* python main.py <flags>: the imports at the top of the file, then main().
Main(db0, seq0, args) ==
    IF ~ImportsResolve
    THEN [db |-> db0, seq |-> seq0,
          out |-> [status |-> "ImportError", ran |-> <<>>]]
    ELSE MainCompleted(MainBody(db0, seq0, args))

\* The invocations: a selection of stages, and the selected stages whose
\* source path is missing.
Invocations ==
    {a \in [sel : SUBSET Range(MainStages) \ {{}}, missing : SUBSET {"books"}] :
        a.missing \subseteq a.sel}

\* One invocation of main.py.
EdgeMain ==
    /\ Len(hist) < MaxEdgeRuns
    /\ \E args \in Invocations :
            LET r == Main(db, seq, args)
            IN  Record("main", args, 0, r) /\ seq' = r.seq

EdgeNext ==
    \/ EdgeMain
    \/ EdgeActorsInterrupted
    \/ EdgeBooks
    \/ EdgeLinks
    \/ EdgeBoxOffice
    \/ EdgeActors
    \/ EdgeTmdbMovies
    \/ EdgeTmdbActors

SpecEdge == Init /\ [][EdgeNext]_vars

-----------------------------------------------------------------------------
(* The helper functions on their own: one call on one argument drawn from a *)
(* bounded set, the argument and the value returned recorded in hist.       *)

MaxLen == 5

IdChars == {" ", "t", "n", "0", "7"}

\* The strings of at most MaxLen characters over IdChars.
IdStrings == UNION {[1..n -> IdChars] : n \in 0..MaxLen}

\* What a caller may hand to the normalizer: None, a number, a string.
DeriveInputs == {Null, Num(7), Num(133093)} \cup {Str(c) : c \in IdStrings}

Returned(op, arg, value) ==
    /\ hist = <<>>
    /\ hist' = <<[op |-> op, arg |-> arg, failAt |-> 0,
                  out |-> [status |-> "returned", value |-> value]]>>
    /\ UNCHANGED <<db, seq, prev>>

CallDerive ==
    /\ hist = <<>>
    /\ \E v \in DeriveInputs :
            Returned("derive", v, _derive_movie_id_source_from_imdb(v))

MaxPeople == 3

\* People rows for one movie: two directors, an actor, an actress, a writer,
\* and three rows that lack a movie key, a person id or a name.
PeopleRows ==
    {PersonRow(Str(<<"t", "t", "7">>), Str(<<"n", "m", "9">>), Txt("Lana Wachowski"),
               Txt("director"), Null),
     PersonRow(Str(<<"t", "t", "7">>), Str(<<"n", "m", "8">>), Txt("Lilly Wachowski"),
               Txt("director"), Null),
     PersonRow(Str(<<"t", "t", "7">>), Str(<<"n", "m", "1">>), Txt("Keanu Reeves"),
               Txt("actor"), Txt("Neo")),
     PersonRow(Str(<<"t", "t", "7">>), Str(<<"n", "m", "2">>), Txt("Carrie-Anne Moss"),
               Txt("actress"), Txt("Trinity")),
     PersonRow(Str(<<"t", "t", "7">>), Str(<<"n", "m", "7">>), Txt("Bill Pope"),
               Txt("writer"), Null),
     PersonRow(Str(<<"n", "o">>), Str(<<"n", "m", "6">>), Txt("Nobody"),
               Txt("director"), Null),
     PersonRow(Str(<<"t", "t", "7">>), Null, Txt("Unnumbered"), Txt("actor"), Null),
     PersonRow(Str(<<"t", "t", "7">>), Str(<<"n", "m", "5">>), Null, Txt("director"), Null)}

PeopleTables == UNION {[1..n -> PeopleRows] : n \in 0..MaxPeople}

\* The people loop of the link stage on a movie_actor_director table.
CallBuildPeople ==
    /\ hist = <<>>
    /\ \E rows \in PeopleTables :
            Returned("people", rows, BuildPeople([people |-> rows]))

MaxMaps == 2

TmdbIds == {603, 841}

\* Rows of the mapping table and of the movies table, by their two id
\* columns: two IMDb ids and a null one for TMDb id 603, and an IMDb id
\* stored as a number for TMDb id 841.
IdRows ==
    {[tmdbid |-> Num(603), imdbid |-> Str(<<"t", "t", "7">>)],
     [tmdbid |-> Num(603), imdbid |-> Str(<<"t", "t", "0">>)],
     [tmdbid |-> Num(603), imdbid |-> Null],
     [tmdbid |-> Num(841), imdbid |-> Num(7)]}

IdTables == UNION {[1..n -> IdRows] : n \in 0..MaxMaps}

\* The TMDb-to-IMDb crosswalk of a mapping table and a movies table, and the
\* normalised link of a link row of book 123 that carries a TMDb id only.
CallBuildTmdbToImdb ==
    /\ hist = <<>>
    /\ \E tmdbmap \in IdTables : \E movies \in IdTables : \E t \in TmdbIds :
        LET tmdb_to_imdb == BuildTmdbToImdb([tmdbmap |-> tmdbmap, movies |-> movies])
        IN  Returned("tmdb_to_imdb",
                     [tmdbmap |-> tmdbmap, movies |-> movies, tmdb_id |-> t],
                     [tmdb_to_imdb |-> tmdb_to_imdb,
                      link |-> NormLink(LinkRow(Num(123), Null, Num(t)),
                                        tmdb_to_imdb)])

\* The warehouses a stage is applied to: the empty one, and the one a link
\* run on the specification's scenario leaves (book 123, The Matrix, one fact).
Linked == load_dw_from_bfr(EmptyDb, EmptySeq, SrcMatrix, 0)

Warehouses ==
    {[db |-> EmptyDb, seq |-> EmptySeq], [db |-> Linked.db, seq |-> Linked.seq]}

\* Rows of books.csv: the rows of the sources of the books stage, and a
\* second book titled "Dune".
CsvRows ==
    UNION {Range(AllBookSources[i]) : i \in 1..Len(AllBookSources)}
        \cup {CsvBook(Num(789), Txt("Dune"), Txt("Someone"), Null, Num(20), Num(2))}

\* book_id_source = str(_safe_int(book_id_source))
CsvKey(r) == PyStr(_safe_int(r.bookid))

Reverse(s) == [i \in 1..Len(s) |-> s[Len(s) + 1 - i]]

\* The books stage on two rows with different keys, in both orders.
CallBooksBothOrders ==
    /\ hist = <<>>
    /\ \E w \in Warehouses : \E r1, r2 \in CsvRows :
        /\ CsvKey(r1) # CsvKey(r2)
        /\ Returned("books_both_orders", [w |-> w, rows |-> <<r1, r2>>],
                [ab |-> load_dw_from_books_csv(w.db, w.seq, <<r1, r2>>, 0),
                 ba |-> load_dw_from_books_csv(w.db, w.seq, <<r2, r1>>, 0)])

\* A link source whose books, movies and people each have a key of their
\* own, and whose movies have one director row at most.
DistinctKeys(src) ==
    /\ \A i, j \in 1..Len(src.books) :
            i # j => src.books[i].goodreads_book_id # src.books[j].goodreads_book_id
    /\ \A i, j \in 1..Len(src.movies) :
            i # j => src.movies[i].imdbid # src.movies[j].imdbid
    /\ \A i, j \in 1..Len(src.people) :
            i # j => /\ src.people[i].nconst # src.people[j].nconst
                     /\ ~(src.people[i].category = Txt("director")
                            /\ src.people[j].category = Txt("director")
                            /\ src.people[i].tconst = src.people[j].tconst)

\* The same source with the rows of its books, movies, people and links
\* tables in the opposite order.
ReverseTables(src) ==
    [src EXCEPT !.books = Reverse(@), !.movies = Reverse(@),
                !.people = Reverse(@), !.links = Reverse(@)]

\* The link stage on a source and on the same source read backwards.
CallLinksBothOrders ==
    /\ hist = <<>>
    /\ \E w \in Warehouses : \E i \in 1..Len(AllLinkSources) :
        /\ DistinctKeys(AllLinkSources[i])
        /\ Returned("links_both_orders", [w |-> w, src |-> i],
                [ab |-> load_dw_from_bfr(w.db, w.seq, AllLinkSources[i], 0),
                 ba |-> load_dw_from_bfr(w.db, w.seq,
                                         ReverseTables(AllLinkSources[i]), 0)])

MaxAmount == 2

\* Budgets and revenues: absent, negative, zero and positive.
Amounts == {Null} \cup {Num(v) : v \in -MaxAmount..MaxAmount}

\* The profit and the ROI the link stage and the remote enrichment derive
\* from one budget and one revenue.
CallDerivedMeasures ==
    /\ hist = <<>>
    /\ \E budget \in Amounts : \E revenue \in Amounts :
        Returned("derived_measures", [budget |-> budget, revenue |-> revenue],
            [links |-> [profit |-> ProfitOf(budget, revenue),
                        roi |-> RoiLinks(ProfitOf(budget, revenue), budget)],
             tmdb |-> [profit |-> ProfitOf(budget, revenue),
                       roi |-> RoiTmdb(ProfitOf(budget, revenue), budget)]])

\* Calendar dates: every month and day of seven years at the ends and in
\* the middle of the range 1..9999, and twelve of them to compare with.
Years == {1, 2, 1998, 1999, 2000, 9998, 9999}

Dates == {Date(y, m, d) : y \in Years, m \in 1..12, d \in 1..31}

CornerDates == {Date(y, m, d) : y \in {1, 1999, 9999}, m \in {1, 12}, d \in {1, 31}}

\* The keys of two dates.
CallDateToSk ==
    /\ hist = <<>>
    /\ \E d1 \in CornerDates : \E d2 \in Dates :
        Returned("date_to_sk", <<d1, d2>>, <<_date_to_sk(d1), _date_to_sk(d2)>>)

PureNext ==
    \/ CallDateToSk
    \/ CallDerivedMeasures
    \/ CallDerive
    \/ CallBuildPeople
    \/ CallBuildTmdbToImdb
    \/ CallBooksBothOrders
    \/ CallLinksBothOrders

SpecPure == Init /\ [][PureNext]_vars

-----------------------------------------------------------------------------
(* Properties.  Helpers first: what a run record says, and the keys and     *)
(* sizes of a warehouse.                                                    *)

Committed(i) == hist[i].out.status = "committed"

\* Runs i and j are the same stage on the same source, both committed.
SameRun(i, j) ==
    /\ hist[i].op = hist[j].op
    /\ hist[i].arg = hist[j].arg
    /\ Committed(i) /\ Committed(j)

\* The last run repeats the run before it.
LastRepeats(op) ==
    /\ Len(hist) >= 2
    /\ Last.op = op
    /\ SameRun(Len(hist) - 1, Len(hist))

\* The (natural key, surrogate key) pairs of the three dimensions.
DimKeys(d) ==
    [book |-> {<<r.Book_ID_Source, r.Book_SK>> : r \in d.Dim_Book},
     movie |-> {<<r.Movie_ID_Source, r.Movie_SK>> : r \in d.Dim_Movie},
     actor |-> {<<r.Actor_ID_Source, r.Actor_SK>> : r \in d.Dim_Actor}]

RowCounts(d) ==
    [Dim_Book |-> Cardinality(d.Dim_Book), Dim_Movie |-> Cardinality(d.Dim_Movie),
     Dim_Actor |-> Cardinality(d.Dim_Actor), Dim_Date |-> Cardinality(d.Dim_Date),
     Bridge_Movie_Actor |-> Cardinality(d.Bridge_Movie_Actor),
     Fact_Book_Adaptation |-> Cardinality(d.Fact_Book_Adaptation)]

OneRowPerNaturalKey(d) ==
    /\ \A a, b \in d.Dim_Book : a.Book_ID_Source = b.Book_ID_Source => a = b
    /\ \A a, b \in d.Dim_Movie : a.Movie_ID_Source = b.Movie_ID_Source => a = b
    /\ \A a, b \in d.Dim_Actor : a.Actor_ID_Source = b.Actor_ID_Source => a = b

\* The surrogate keys two runs of one stage obtained are the same.
SameKeysObtained(i, j) ==
    CASE hist[i].op = "links" ->
            /\ hist[i].out.book_src_to_sk = hist[j].out.book_src_to_sk
            /\ hist[i].out.movie_src_to_sk = hist[j].out.movie_src_to_sk
            /\ hist[i].out.actor_src_to_sk = hist[j].out.actor_src_to_sk
      [] hist[i].op = "books" ->
            [k \in 1..Len(hist[i].out.fact_update_data) |->
                hist[i].out.fact_update_data[k].bsk]
            = [k \in 1..Len(hist[j].out.fact_update_data) |->
                hist[j].out.fact_update_data[k].bsk]
      [] OTHER -> TRUE

\* C1: running the dimension upserts of a stage twice on identical source
\* input leaves exactly one dimension row per natural key, and the second
\* run obtains for each natural key the surrogate key the first run obtained.
C1_UpsertTwiceOneRowSameKey ==
    /\ OneRowPerNaturalKey(db)
    /\ \A i, j \in 1..Len(hist) : (i < j /\ SameRun(i, j)) => SameKeysObtained(i, j)
    /\ \A op \in {"books", "links", "actors"} :
            LastRepeats(op) => DimKeys(db) = DimKeys(prev)

\* The link stage has run twice on the two-book source and both runs
\* resolved both books, both movies and both actors.
C1_Witness ==
    /\ LastRepeats("links")
    /\ Last.arg = 2
    /\ Len(Last.out.book_src_to_sk) = 2
    /\ Len(Last.out.movie_src_to_sk) = 2
    /\ Len(Last.out.actor_src_to_sk) = 2
    /\ Cardinality(db.Dim_Book) = 2

\* C2: however often the link stage runs over the same or overlapping link
\* rows, Fact_Book_Adaptation holds at most one row per (Book_SK, Movie_SK),
\* and re-running the same input leaves every table's row count unchanged.
C2_FactGrainAndCounts ==
    /\ \A f, g \in db.Fact_Book_Adaptation :
            (f.Book_SK = g.Book_SK /\ f.Movie_SK = g.Movie_SK) => f = g
    /\ LastRepeats("links") => RowCounts(db) = RowCounts(prev)

\* Three link runs over overlapping link rows (the pair book 123 / The
\* Matrix is in all three sources), the last one a re-run of its predecessor.
C2_Witness ==
    /\ Len(hist) = 3
    /\ \A i \in 1..3 : hist[i].op = "links" /\ Committed(i)
    /\ hist[1].arg = 2 /\ hist[2].arg = 3 /\ hist[3].arg = 3
    /\ Cardinality(db.Fact_Book_Adaptation) = 2

\* C3: in every stage run, every (natural key, surrogate key) assignment of
\* the three dimensions is still there afterwards: no key is reassigned and
\* no dimension row is deleted.
C3_SurrogateKeysStable ==
    [][/\ DimKeys(db).book \subseteq DimKeys(db').book
       /\ DimKeys(db).movie \subseteq DimKeys(db').movie
       /\ DimKeys(db).actor \subseteq DimKeys(db').actor
       /\ OneRowPerNaturalKey(db')]_vars

\* Book 123 was created by the link stage and then presented again by the
\* books stage and by a second link source; its actor by the bulk load.
C3_Witness ==
    /\ Len(hist) = 3
    /\ hist[1].op = "links" /\ hist[1].arg = 2 /\ Committed(1)
    /\ hist[2].op = "books" /\ Committed(2)
    /\ hist[3].op = "actors" /\ Committed(3)
    /\ \E r \in db.Dim_Book : r.Book_ID_Source = Str(<<"1", "2", "3">>) /\ r.Book_SK = 1
    /\ \E r \in db.Dim_Actor : r.Birth_Year # Null

\* The last run is a run of stage op that ended as `status`.
LastIs(op, status) ==
    Len(hist) > 0 /\ Last.op = op /\ Last.out.status = status

\* The crosswalks and lookups the last link run worked from.
LastLinkInputs == LinkInputs(LinkSources[Last.arg], Crosswalks(LinkSources[Last.arg]))

\* C4: when a link run presents a book or a movie that already has a row,
\* each field the statement declares ends up with the presented value if it
\* is non-null and with the stored value otherwise, and the fields it does
\* not declare (Publisher, TMDb_Popularity) keep their stored value.
C4_ReupsertMergesNonNull ==
    LastIs("links", "committed") =>
        /\ \A p \in prev.Dim_Book : \A r \in db.Dim_Book :
            (r.Book_SK = p.Book_SK
                /\ DictHas(Last.out.book_src_to_sk, p.Book_ID_Source.c)) =>
                /\ r.Title = Coalesce(
                        LinkBookParams(LastLinkInputs, p.Book_ID_Source.c).title, p.Title)
                /\ r.Author = Coalesce(
                        LinkBookParams(LastLinkInputs, p.Book_ID_Source.c).author, p.Author)
                /\ r.Publisher = p.Publisher
        /\ \A p \in prev.Dim_Movie : \A r \in db.Dim_Movie :
            (r.Movie_SK = p.Movie_SK
                /\ DictHas(Last.out.movie_src_to_sk, p.Movie_ID_Source.c)) =>
                /\ r.Distributor = Coalesce(
                        LinkMovieParams(LastLinkInputs, p.Movie_ID_Source.c).dist,
                        p.Distributor)
                /\ r.Genre = Coalesce(
                        LinkMovieParams(LastLinkInputs, p.Movie_ID_Source.c).genre, p.Genre)
                /\ r.Director = Coalesce(
                        LinkMovieParams(LastLinkInputs, p.Movie_ID_Source.c).director,
                        p.Director)
                /\ r.TMDb_Popularity = p.TMDb_Popularity

\* C5: after any sequence of link, box-office and remote-enrichment runs,
\* every fact row with Box_Office_Gross and Production_Budget both set has
\* Profit = gross - budget, and every fact row with budget zero has no ROI.
C5_DerivedMeasureLaw ==
    (\A i \in 1..Len(hist) : hist[i].op \in {"links", "box_office", "tmdb_movies"}) =>
        \A f \in db.Fact_Book_Adaptation :
            /\ (f.Box_Office_Gross # Null /\ f.Production_Budget # Null) =>
                    f.Profit = Num(f.Box_Office_Gross.v - f.Production_Budget.v)
            /\ f.Production_Budget = Num(0) => f.ROI = Null

\* Profit and ROI of a fact row as the specification derives them from the
\* row's revenue and budget.
MeasuresAsSpecified(f) ==
    /\ f.Profit = IF f.Box_Office_Gross # Null /\ f.Production_Budget # Null
                  THEN Num(f.Box_Office_Gross.v - f.Production_Budget.v) ELSE Null
    /\ f.ROI = IF f.Profit # Null /\ f.Production_Budget # Null
                    /\ f.Production_Budget.v # 0
               THEN Ratio(f.Profit.v * 100, f.Production_Budget.v) ELSE Null
    /\ (f.Box_Office_Gross = Null /\ f.Production_Budget = Null) =>
            (f.Profit = Null /\ f.ROI = Null)

\* C6: the fact rows a link run has inserted and the fact rows a remote
\* enrichment run has written carry profit = revenue - budget when both are
\* known, ROI = profit / budget * 100 when the budget is known and nonzero,
\* and no measure otherwise.
C6_MeasuresComputedAsSpecified ==
    /\ LastIs("links", "committed") =>
            \A f \in db.Fact_Book_Adaptation \ prev.Fact_Book_Adaptation :
                MeasuresAsSpecified(f)
    /\ (Len(hist) > 0 /\ Last.op = "tmdb_movies") =>
            \A f \in db.Fact_Book_Adaptation :
                f.Movie_SK \in Last.out.applied => MeasuresAsSpecified(f)

BoxThenRemote(d, b, w) ==
    load_dynamic_movie_data(load_dw_from_box_office(d, BoxSources[b], 0).db,
                            Worlds[w], 0).db

RemoteThenBox(d, b, w) ==
    load_dw_from_box_office(load_dynamic_movie_data(d, Worlds[w], 0).db,
                            BoxSources[b], 0).db

\* C7: on a warehouse with linked fact rows, box-office enrichment followed
\* by remote enrichment leaves the same warehouse as the two in the other
\* order, and either enrichment applied twice leaves what it leaves applied
\* once.
C7_EnrichmentsCommuteAndRepeat ==
    db.Fact_Book_Adaptation # {} =>
        /\ \A b \in 1..Len(BoxSources) : \A w \in 1..Len(Worlds) :
                BoxThenRemote(db, b, w) = RemoteThenBox(db, b, w)
        /\ \A b \in 1..Len(BoxSources) :
                load_dw_from_box_office(
                    load_dw_from_box_office(db, BoxSources[b], 0).db,
                    BoxSources[b], 0).db
                = load_dw_from_box_office(db, BoxSources[b], 0).db
        /\ \A w \in 1..Len(Worlds) :
                load_dynamic_movie_data(
                    load_dynamic_movie_data(db, Worlds[w], 0).db, Worlds[w], 0).db
                = load_dynamic_movie_data(db, Worlds[w], 0).db

\* The box-office row j matches the movie row p by title and release year.
BoxRowMatches(row, p) ==
    /\ ~IsNull(row.movie)
    /\ Truthy(_coerce_date(row.release_date))
    /\ p.Movie_Title_Source = row.movie
    /\ p.Release_Year = Num(_coerce_date(row.release_date).y)

\* C8: a box-office run leaves a stored non-null Distributor or Genre of a
\* matched movie as it was, whatever the row supplies, and replaces a stored
\* null by the supplied value.
C8_FillOnlyIfNull ==
    LastIs("box_office", "committed") =>
        \A p \in prev.Dim_Movie : \A r \in db.Dim_Movie :
            r.Movie_SK = p.Movie_SK =>
                \A j \in 1..Len(BoxSources[Last.arg]) :
                    BoxRowMatches(BoxSources[Last.arg][j], p) =>
                        /\ r.Distributor = IF p.Distributor # Null THEN p.Distributor
                                           ELSE BoxSources[Last.arg][j].distributor
                        /\ r.Genre = IF p.Genre # Null THEN p.Genre
                                     ELSE BoxSources[Last.arg][j].genre

\* The specification's scenario: the link stage on the one-book, one-movie
\* source, then the box-office stage on the row for 'The Matrix'.
MatrixScenario ==
    /\ Len(hist) = 2
    /\ hist[1].op = "links" /\ hist[1].arg = 1 /\ Committed(1)
    /\ hist[2].op = "box_office" /\ hist[2].arg = 1 /\ Committed(2)

\* C9: in the scenario the box-office row matches the movie by title and
\* year, sets gross and tickets of the existing fact row and the movie's
\* distributor, and leaves director, genre and all row counts as they were.
C9_MatrixBoxOffice ==
    MatrixScenario =>
        /\ Last.out.updated_dims = 1 /\ Last.out.updated_facts = 1
        /\ Last.out.skipped_rows = 0
        /\ RowCounts(db) = RowCounts(prev)
        /\ \A f \in db.Fact_Book_Adaptation :
                /\ f.Box_Office_Gross = Num(465000000)
                /\ f.Tickets_Sold = Num(12345678)
        /\ \A r \in db.Dim_Movie : \A p \in prev.Dim_Movie :
                /\ r.Distributor = Txt("Warner Bros")
                /\ p.Distributor = Null
                /\ r.Director = p.Director /\ r.Director = Txt("Wachowski")
                /\ r.Genre = p.Genre /\ r.Genre = Txt("Action")
                /\ r.Movie_SK = p.Movie_SK

\* The scenario has run: one movie, one fact row, the distributor filled.
C9_Witness ==
    /\ MatrixScenario
    /\ Cardinality(db.Dim_Movie) = 1
    /\ Cardinality(db.Fact_Book_Adaptation) = 1
    /\ \E r \in db.Dim_Movie :
            r.Movie_ID_Source = Str(<<"0", "1", "3", "3", "0", "9", "3">>)
            /\ r.Distributor = Txt("Warner Bros")

\* The sequence s without its k-th element.
Without(s, k) == [j \in 1..(Len(s) - 1) |-> IF j < k THEN s[j] ELSE s[j + 1]]

\* C10: when the store fails on one row of a books, link or box-office run,
\* only that row's writes are lost: the other rows of the run, before and
\* after it, are in the warehouse when the run ends.
C10_OnlyFailingRowRolledBack ==
    (Len(hist) > 0 /\ Last.failAt > 0) =>
        CASE Last.op = "books" ->
                \A j \in 1..Len(BookSources[Last.arg]) : j # Last.failAt =>
                    \E r \in db.Dim_Book : r.Book_ID_Source =
                        Str(PyStr(_safe_int(BookSources[Last.arg][j].bookid)))
          [] Last.op = "links" ->
                \A j \in 1..Len(Last.out.norm_links) :
                    Last.out.norm_links[j] # Last.out.norm_links[Last.failAt] =>
                        \E f \in db.Fact_Book_Adaptation :
                            /\ f.Book_SK = DictGet(Last.out.book_src_to_sk,
                                                Last.out.norm_links[j][1], 0)
                            /\ f.Movie_SK = DictGet(Last.out.movie_src_to_sk,
                                                Last.out.norm_links[j][2], 0)
          [] Last.op = "box_office" ->
                db = load_dw_from_box_office(prev,
                        Without(BoxSources[Last.arg], Last.failAt), 0).db
          [] OTHER -> TRUE

\* The books file of the last run names some book in two of its rows.
RepeatsAKey(rows) ==
    \E j, k \in 1..Len(rows) : j # k /\ rows[j].bookid = rows[k].bookid

\* C11: a books run over a file that presents one book id in two rows
\* commits, leaves exactly one Dim_Book row for that id, and the fact rows
\* of that book carry the measures of one of the two rows.
C11_RepeatedKeyCollapses ==
    (Len(hist) > 0 /\ Last.op = "books" /\ Last.failAt = 0
        /\ RepeatsAKey(AllBookSources[Last.arg])) =>
        /\ Last.out.status = "committed"
        /\ \A row \in Range(AllBookSources[Last.arg]) :
            /\ Cardinality({r \in db.Dim_Book : r.Book_ID_Source =
                                Str(PyStr(_safe_int(row.bookid)))}) = 1
            /\ \A r \in db.Dim_Book : \A f \in db.Fact_Book_Adaptation :
                (r.Book_ID_Source = Str(PyStr(_safe_int(row.bookid)))
                    /\ f.Book_SK = r.Book_SK) =>
                    \E other \in Range(AllBookSources[Last.arg]) :
                        /\ other.bookid = row.bookid
                        /\ f.Book_Average_Rating =
                                _safe_float(other.average_rating, Num(0), Num(50))
                        /\ f.Book_Ratings_Count = _safe_int(other.ratings_count)

\* The last run is a remote enrichment run (movies or actors).
LastIsRemote == Len(hist) > 0 /\ Last.op \in {"tmdb_movies", "tmdb_actors"}

\* The response script the service of the last run holds for an external id.
LastFindScript(ext) == DictGet(AllWorlds[Last.arg].find, ext, NoFind)

\* The positions of the requests of kind e for row sk in a trace.
RequestsOf(trace, e, sk) ==
    {p \in 1..Len(trace) : trace[p].e = e /\ trace[p].sk = sk}

\* C12: in a remote enrichment run, a find call whose first response has an
\* undecodable body makes exactly one request, waits for nothing and leaves
\* the row without an update.
C12_DecodeFailureNotRetried ==
    LastIsRemote =>
        \A c \in Range(Last.out.calls) :
            (LastFindScript(c.ext).fails = 0 /\ LastFindScript(c.ext).garbled > 0) =>
                /\ c.requests = 1
                /\ c.waits = <<>>
                /\ ~c.found
                /\ c.sk \notin Last.out.applied
                /\ RequestsOf(Last.out.trace, "details", c.sk) = {}

IsRequest(ev) == ev.e \in {"find", "details"}

\* C13: in a remote enrichment run, each retry loop (find, details) makes at
\* most 3 requests per row; attempt k + 1 comes only after attempt k of the
\* same call and a wait of 5 s * k (5 s, then 10 s) in between, and every
\* wait is followed by the next attempt; a row whose find failed 3 times
\* gets no further request and no update, a row whose details failed 3
\* times gets no update.
C13_BoundedRetriesWithBackoff ==
    LastIsRemote =>
        /\ \A p \in 1..Len(Last.out.trace) :
            /\ IsRequest(Last.out.trace[p]) =>
                /\ Last.out.trace[p].n \in 1..3
                /\ Last.out.trace[p].n > 1 =>
                    /\ p > 2
                    /\ Last.out.trace[p - 1] =
                        [e |-> "wait", sk |-> Last.out.trace[p].sk,
                         n |-> 50 * (Last.out.trace[p].n - 1)]
                    /\ Last.out.trace[p - 2] =
                        [Last.out.trace[p] EXCEPT !.n = @ - 1]
            /\ Last.out.trace[p].e = "wait" =>
                /\ p < Len(Last.out.trace)
                /\ IsRequest(Last.out.trace[p + 1])
                /\ Last.out.trace[p + 1].n > 1
        /\ \A c \in Range(Last.out.calls) :
            /\ Cardinality(RequestsOf(Last.out.trace, "find", c.sk)) = c.requests
            /\ Cardinality(RequestsOf(Last.out.trace, "details", c.sk)) <= 3
            /\ RetriedFailures(LastFindScript(c.ext)) >= 3 =>
                /\ c.requests = 3
                /\ RequestsOf(Last.out.trace, "details", c.sk) = {}
                /\ c.sk \notin Last.out.applied
            /\ (c.sk \in Last.out.failed /\ Last.failAt = 0) =>
                Cardinality(RequestsOf(Last.out.trace, "details", c.sk)) = 3

\* A movie run in which one find gave up after its third failure, another
\* row's details came on their third attempt after waits of 5 s and 10 s,
\* and that row was updated.
C13_Witness ==
    /\ LastIsRemote /\ Last.op = "tmdb_movies"
    /\ \E c \in Range(Last.out.calls) : c.requests = 3 /\ ~c.found
    /\ \E c \in Range(Last.out.calls) :
        /\ c.sk \in Last.out.applied
        /\ Cardinality(RequestsOf(Last.out.trace, "details", c.sk)) = 3
        /\ [e |-> "wait", sk |-> c.sk, n |-> 100] \in Range(Last.out.trace)

TT == <<"t", "t">>
NM == <<"n", "m">>

\* C14: every find of a movie enrichment run asks for a movie-prefixed id
\* (and so reads the movie results), every find of an actor enrichment run
\* asks for a person-prefixed id.
C14_PrefixFollowsEntityType ==
    LastIsRemote =>
        \A c \in Range(Last.out.calls) :
            StartsWith(c.ext, IF Last.op = "tmdb_movies" THEN TT ELSE NM)

\* The stored natural key of the row a call was made for.
StoredKey(c) ==
    IF Last.op = "tmdb_movies"
    THEN (CHOOSE r \in prev.Dim_Movie : r.Movie_SK = c.sk).Movie_ID_Source.c
    ELSE (CHOOSE r \in prev.Dim_Actor : r.Actor_SK = c.sk).Actor_ID_Source.c

\* C15: in a remote enrichment run, a row whose stored key carries the
\* prefix of the other entity type (a movie-prefixed key among the actors,
\* a person-prefixed key among the movies) causes no request and gets no
\* update.
C15_ContradictingPrefixRejected ==
    LastIsRemote =>
        \A c \in Range(Last.out.calls) :
            StartsWith(StoredKey(c), IF Last.op = "tmdb_movies" THEN NM ELSE TT) =>
                /\ c.requests = 0
                /\ RequestsOf(Last.out.trace, "find", c.sk) = {}
                /\ RequestsOf(Last.out.trace, "details", c.sk) = {}
                /\ c.sk \notin Last.out.applied

\* C16: in the trace of a remote enrichment run no request is directly
\* followed by another request of a different call: a request that got its
\* answer is followed by a pause before the next request goes out.
C16_PauseAfterEverySuccessfulCall ==
    LastIsRemote =>
        \A p \in 1..(Len(Last.out.trace) - 1) :
            IsRequest(Last.out.trace[p]) => ~IsRequest(Last.out.trace[p + 1])

\* The surrogate keys of the rows the loop of the last remote run is to visit.
RowsToVisit ==
    IF Last.op = "tmdb_movies"
    THEN [i \in 1..Cardinality(prev.Dim_Movie) |->
            MoviesBySk(prev.Dim_Movie)[i].Movie_SK]
    ELSE LET S == {r \in prev.Dim_Actor :
                    \E b \in prev.Bridge_Movie_Actor : b.Actor_SK = r.Actor_SK}
         IN  [i \in 1..Cardinality(S) |-> ActorsBySk(S)[i].Actor_SK]

\* The popularity the service of the last run publishes for the row of call c.
PublishedPopularity(c) ==
    LET id == _get_tmdb_id(AllWorlds[Last.arg], StoredKey(c)).tmdb_id.v
    IN  _safe_float(DictGet(IF Last.op = "tmdb_movies"
                            THEN AllWorlds[Last.arg].movie
                            ELSE AllWorlds[Last.arg].person, id, Null).popularity,
                    Null, Null)

StoredPopularity(d, sk) ==
    IF Last.op = "tmdb_movies"
    THEN (CHOOSE r \in d.Dim_Movie : r.Movie_SK = sk).TMDb_Popularity
    ELSE (CHOOSE r \in d.Dim_Actor : r.Actor_SK = sk).Popularity_Score

\* C17: a remote enrichment run visits every row it selected, in order,
\* whatever happened to the rows before (lookup miss, exhausted retries,
\* failed store update), and ends with its summary; at the end every row
\* it enriched holds the published popularity and every other row is as it
\* was before the run.
C17_RowFailureDoesNotStopLoop ==
    LastIsRemote =>
        /\ [i \in 1..Len(Last.out.calls) |-> Last.out.calls[i].sk] = RowsToVisit
        /\ Last.out.status \in {"committed", "partial"}
        /\ \A c \in Range(Last.out.calls) :
            IF c.sk \in Last.out.applied
            THEN StoredPopularity(db, c.sk) = PublishedPopularity(c)
            ELSE StoredPopularity(db, c.sk) = StoredPopularity(prev, c.sk)

\* A run in which a row was enriched, the next row visited failed after its
\* lookup (retries exhausted or store failure) and a row after that was
\* enriched again.
C17_Witness ==
    /\ LastIsRemote
    /\ \E i, k, l \in 1..Len(Last.out.calls) :
        /\ i < k /\ k < l
        /\ Last.out.calls[i].sk \in Last.out.applied
        /\ Last.out.calls[k].sk \in Last.out.failed
        /\ Last.out.calls[l].sk \in Last.out.applied

\* The natural keys of the actors a warehouse holds.
ActorKeys(d) == {r.Actor_ID_Source : r \in d.Dim_Actor}

\* The chunks of the file the last bulk actor run read.
LastChunks == AllActorSources[Last.arg]

\* The rows with a name in the chunks of the last run that committed.
CommittedActorRows ==
    {LastChunks[i][j] : <<i, j>> \in
        {x \in (1..Len(LastChunks)) \X (1..2) :
            /\ x[2] <= Len(LastChunks[x[1]])
            /\ x[1] \notin Last.out.failed
            /\ NotNa(LastChunks[x[1]][x[2]].primaryName)}}

NullNamed(chunk) == {j \in 1..Len(chunk) : ~NotNa(chunk[j].primaryName)}

\* C18: a bulk actor run reports for every chunk the number of its rows
\* without a name; a chunk of n rows with distinct ids, k of them without
\* a name, adds n - k to the rows processed and leaves a Dim_Actor row for
\* each of its n - k named rows and none for a nameless row (unless the
\* actor is known from elsewhere); no run ever stores an actor without name.
C18_NullNamesDropped ==
    /\ \A r \in db.Dim_Actor : r.Name # Null
    /\ (Len(hist) > 0 /\ Last.op = "actors") =>
        /\ Len(Last.out.dropped) = Len(LastChunks)
        /\ \A i \in 1..Len(LastChunks) :
            /\ Last.out.dropped[i] = Cardinality(NullNamed(LastChunks[i]))
            /\ \A j \in NullNamed(LastChunks[i]) :
                \/ LastChunks[i][j].nconst \notin ActorKeys(db)
                \/ LastChunks[i][j].nconst \in ActorKeys(prev)
                \/ \E row \in CommittedActorRows : row.nconst = LastChunks[i][j].nconst
        /\ Last.out.total_rows_processed =
            Cardinality({x \in (1..Len(LastChunks)) \X (1..2) :
                /\ x[2] <= Len(LastChunks[x[1]])
                /\ x[1] \notin Last.out.failed
                /\ x[2] \notin NullNamed(LastChunks[x[1]])})
        /\ \A row \in CommittedActorRows :
            \E r \in db.Dim_Actor :
                /\ r.Actor_ID_Source = row.nconst
                /\ \E other \in CommittedActorRows :
                    other.nconst = row.nconst /\ r.Name = other.primaryName

\* A run over a chunk of two rows, one without a name: one row dropped,
\* the named one stored, the nameless one absent.
C18_Witness ==
    /\ Len(hist) > 0 /\ Last.op = "actors" /\ 1 \notin Last.out.failed
    /\ Len(LastChunks[1]) = 2
    /\ Last.out.dropped[1] = 1
    /\ \E j \in NullNamed(LastChunks[1]) :
        LastChunks[1][j].nconst \notin ActorKeys(db)
    /\ \E j \in 1..2 : /\ j \notin NullNamed(LastChunks[1])
                       /\ LastChunks[1][j].nconst \in ActorKeys(db)

\* C19: in a bulk actor run with a failed chunk N, no row of chunk N is
\* written (an actor of chunk N is stored only if it was stored before the
\* run, unchanged by chunk N, or if a committed chunk names it), every row
\* of a chunk that did not fail, before or after N, is stored, and every
\* chunk is visited.
C19_ChunkIsOwnTransaction ==
    (Len(hist) > 0 /\ Last.op = "actors") =>
        /\ Len(Last.out.dropped) = Len(LastChunks)
        /\ \A row \in CommittedActorRows : row.nconst \in ActorKeys(db)
        /\ \A N \in Last.out.failed : \A row \in Range(LastChunks[N]) :
            \/ \E other \in CommittedActorRows : other.nconst = row.nconst
            \/ {r \in db.Dim_Actor : r.Actor_ID_Source = row.nconst} =
                    {r \in prev.Dim_Actor : r.Actor_ID_Source = row.nconst}

\* A run of three chunks whose second chunk failed: the actors of chunks 1
\* and 3 are stored, the actor of chunk 2 is not.
C19_Witness ==
    /\ Len(hist) > 0 /\ Last.op = "actors" /\ Last.out.failed = {2}
    /\ Len(LastChunks) = 3
    /\ \E row \in Range(LastChunks[1]) : row.nconst \in ActorKeys(db)
    /\ \E row \in Range(LastChunks[3]) : row.nconst \in ActorKeys(db)
    /\ \A row \in Range(LastChunks[2]) : row.nconst \notin ActorKeys(db)

\* The natural key a surrogate key stands for (Null when no row carries it).
BookKeyOf(d, sk) ==
    IF \E r \in d.Dim_Book : r.Book_SK = sk
    THEN (CHOOSE r \in d.Dim_Book : r.Book_SK = sk).Book_ID_Source ELSE Null

MovieKeyOf(d, sk) ==
    IF \E r \in d.Dim_Movie : r.Movie_SK = sk
    THEN (CHOOSE r \in d.Dim_Movie : r.Movie_SK = sk).Movie_ID_Source ELSE Null

ActorKeyOf(d, sk) ==
    IF \E r \in d.Dim_Actor : r.Actor_SK = sk
    THEN (CHOOSE r \in d.Dim_Actor : r.Actor_SK = sk).Actor_ID_Source ELSE Null

\* A warehouse with every generated surrogate key replaced by the natural
\* key of the row it names, together with the row count of every table: what
\* the warehouse says, whatever numbers the key generators handed out.
UpToSurrogateKeys(d) ==
    [counts |-> RowCounts(d),
     Dim_Book |-> {[r EXCEPT !.Book_SK = 0] : r \in d.Dim_Book},
     Dim_Movie |-> {[r EXCEPT !.Movie_SK = 0] : r \in d.Dim_Movie},
     Dim_Actor |-> {[r EXCEPT !.Actor_SK = 0] : r \in d.Dim_Actor},
     Dim_Date |-> d.Dim_Date,
     Bridge_Movie_Actor |->
        {[movie |-> MovieKeyOf(d, b.Movie_SK), actor |-> ActorKeyOf(d, b.Actor_SK),
          row |-> [b EXCEPT !.Movie_SK = 0, !.Actor_SK = 0]] :
            b \in d.Bridge_Movie_Actor},
     Fact_Book_Adaptation |->
        {[book |-> BookKeyOf(d, f.Book_SK), movie |-> MovieKeyOf(d, f.Movie_SK),
          row |-> [f EXCEPT !.Book_SK = 0, !.Movie_SK = 0]] :
            f \in d.Fact_Book_Adaptation}]

\* The last run was interrupted (link stage: its one transaction was rolled
\* back; bulk actor load: stopped inside a chunk) and the step now taken
\* re-runs the same stage over the same source to its end.
RerunsInterrupted ==
    /\ Len(hist) > 0 /\ Len(hist') = Len(hist) + 1
    /\ \/ Last.op = "links" /\ Last.out.status = "raised"
       \/ Last.op = "actors_interrupted"
    /\ hist'[Len(hist')].op = (IF Last.op = "links" THEN "links" ELSE "actors")
    /\ hist'[Len(hist')].arg = Last.arg
    /\ hist'[Len(hist')].failAt = 0

\* The warehouse a single uninterrupted run of the stage of the last run
\* leaves, started on warehouse d with key generators g.
SingleRun(d, g) ==
    IF Last.op = "links"
    THEN load_dw_from_bfr(d, g, AllLinkSources[Last.arg], 0).db
    ELSE load_dw_from_imdb_actors(d, g, AllActorSources[Last.arg], 0).db

\* C20 as amended: re-running an interrupted stage run from the start over
\* the same source leaves the warehouse a single uninterrupted run from the
\* warehouse before the interruption leaves, up to the values of the
\* generated surrogate keys.
C20_RerunEqualsSingleRunUpToKeys ==
    [][RerunsInterrupted =>
        UpToSurrogateKeys(db') = UpToSurrogateKeys(SingleRun(prev, seq))]_vars

\* C20: an interrupted first run of a stage followed by a re-run over the
\* same source leaves exactly the warehouse a single uninterrupted first
\* run leaves.
C20_RerunEqualsSingleRun ==
    [][(RerunsInterrupted /\ Len(hist) = 1) =>
        db' = SingleRun(EmptyDb, EmptySeq)]_vars

\* A bulk actor load stopped in its second chunk, with the first chunk
\* committed, was re-run to its end: the actors of both chunks are stored.
C20_Witness ==
    /\ Len(hist) > 1
    /\ hist[Len(hist) - 1].op = "actors_interrupted"
    /\ hist[Len(hist) - 1].failAt = 2
    /\ Last.op = "actors" /\ Last.arg = hist[Len(hist) - 1].arg
    /\ Last.failAt = 0 /\ Last.out.status = "committed"
    /\ prev.Dim_Actor # {}
    /\ Cardinality(db.Dim_Actor) > Cardinality(prev.Dim_Actor)

\* The movie key a link row of a snapshot leads to: from its IMDb id, else
\* from its TMDb id through the snapshot's crosswalk (Null when neither).
LinkRowMovieKey(src, r) ==
    LET direct == IF NotNa(r.imdb_id)
                  THEN _derive_movie_id_source_from_imdb(Str(PyStr(r.imdb_id)))
                  ELSE Null
        imdb_id == IF NotNa(r.tmdb_id)
                   THEN DictGet(BuildTmdbToImdb(src), r.tmdb_id.v, Null) ELSE Null
    IN  IF direct # Null THEN direct
        ELSE IF imdb_id # Null THEN _derive_movie_id_source_from_imdb(imdb_id)
        ELSE Null

\* C21: a books run writes no Dim_Book row for a source row whose book id
\* does not convert to a number (every row it adds carries the converted
\* id of some source row) and still commits; the link set of a link run
\* holds only pairs of link rows with a book id and a derivable movie key,
\* and the run is not aborted.
C21_UnderivableKeysSkipped ==
    /\ (Len(hist) > 0 /\ Last.op = "books" /\ Last.failAt = 0
            /\ ~RepeatsAKey(AllBookSources[Last.arg])) =>
        /\ Last.out.status = "committed"
        /\ \A r \in db.Dim_Book \ prev.Dim_Book :
            \E row \in Range(AllBookSources[Last.arg]) :
                /\ _safe_int(row.bookid) # Null
                /\ r.Book_ID_Source = Str(IntToStr(_safe_int(row.bookid).v))
    /\ (Len(hist) > 0 /\ Last.op = "links" /\ Last.failAt = 0) =>
        /\ Last.out.status \in {"committed", "no_links"}
        /\ \A pair \in Range(Last.out.norm_links) :
            \E row \in Range(AllLinkSources[Last.arg].links) :
                /\ NotNa(row.goodreads_book_id)
                /\ pair[1] = BookIdText(row.goodreads_book_id)
                /\ LinkRowMovieKey(AllLinkSources[Last.arg], row) = Str(pair[2])

HasDigit(c) == \E i \in 1..Len(c) : IsDigit(c[i])

\* C22: the movie-key normalizer returns None exactly when its argument is
\* not a string or is a string without a digit.
C22_NoneIffNoDigitRun ==
    (hist # <<>> /\ Last.op = "derive") =>
        (Last.out.value = Null <=>
            (Last.arg.k # "str" \/ ~HasDigit(Last.arg.c)))

\* C23: when the argument is, between optional blanks, "tt" or "t" followed
\* by digits only, the normalizer returns exactly those digits.
C23_SameRunForBothPrefixes ==
    (hist # <<>> /\ Last.op = "derive" /\ Last.arg.k = "str") =>
        \A i, j \in 1..Len(Last.arg.c) :
            (/\ \A k \in 1..Len(Last.arg.c) :
                    (k < i \/ k > j) => Last.arg.c[k] = " "
             /\ Last.arg.c[i] = "t") =>
                /\ (i < j /\ IsDigits(SubSeq(Last.arg.c, i + 1, j))) =>
                        Last.out.value = Str(SubSeq(Last.arg.c, i + 1, j))
                /\ (i + 1 < j /\ Last.arg.c[i + 1] = "t"
                        /\ IsDigits(SubSeq(Last.arg.c, i + 2, j))) =>
                        Last.out.value = Str(SubSeq(Last.arg.c, i + 2, j))

\* The normalizer was given " tt07" and returned "07".
C23_Witness ==
    /\ hist # <<>> /\ Last.op = "derive"
    /\ Last.arg = Str(<<" ", "t", "t", "0", "7">>)
    /\ Last.out.value = Str(<<"0", "7">>)

\* The rating a measure column is to hold for a source rating (in tenths)
\* and the upper end of its range: the rating itself inside [0, hi], else
\* nothing.
AcceptedRating(rating, hi) ==
    IF rating.k = "num" /\ 0 <= rating.v /\ rating.v <= hi THEN rating ELSE Null

\* C24: the fact rows a committed link run adds hold the book's rating iff
\* it lies in [0, 5] and the movie's rating iff it lies in [0, 10], both ends
\* included, and nothing otherwise; the fact rows a committed books run
\* backfills hold the book's rating under the same rule.
C24_RatingBoundsInclusive ==
    /\ (Len(hist) > 0 /\ Last.op = "links" /\ Last.out.status = "committed") =>
        \A f \in db.Fact_Book_Adaptation \ prev.Fact_Book_Adaptation :
            /\ \A b \in Range(AllLinkSources[Last.arg].books) :
                (NotNa(b.goodreads_book_id) /\
                 BookKeyOf(db, f.Book_SK) = Str(BookIdText(b.goodreads_book_id))) =>
                    f.Book_Average_Rating = AcceptedRating(b.avg_rating, 50)
            /\ \A m \in Range(AllLinkSources[Last.arg].movies) :
                MovieKeyOf(db, f.Movie_SK) =
                        _derive_movie_id_source_from_imdb(m.imdbid) =>
                    f.Movie_Average_Rating = AcceptedRating(m.averagerating, 100)
    /\ (Len(hist) > 0 /\ Last.op = "books" /\ Last.out.status = "committed") =>
        \A f \in db.Fact_Book_Adaptation :
            \A row \in Range(AllBookSources[Last.arg]) :
                BookKeyOf(db, f.Book_SK) = Str(PyStr(_safe_int(row.bookid))) =>
                    f.Book_Average_Rating = AcceptedRating(row.average_rating, 50)

\* The cast rows of a link source for one (movie key, person id) pair, in
\* the order the stage meets them.
CastRowsOf(src, mkey, aid) ==
    SelectSeq(BuildPeople(src).actors_data,
              LAMBDA r : Str(r.imdb_key) = mkey /\ r.actor_id = aid)

\* The bridge row of a (movie SK, actor SK) pair carries the role of a cast
\* row of the last link source although the pair was stored before that run.
RoleOfferedAgain(b) ==
    /\ Len(hist) > 0 /\ Last.op = "links" /\ Last.out.status = "committed"
    /\ \E old \in prev.Bridge_Movie_Actor :
            old.Movie_SK = b.Movie_SK /\ old.Actor_SK = b.Actor_SK
    /\ Len(CastRowsOf(AllLinkSources[Last.arg], MovieKeyOf(db, b.Movie_SK),
                      ActorKeyOf(db, b.Actor_SK))) > 0

\* C25: Bridge_Movie_Actor holds at most one row per (movie SK, actor SK);
\* no run changes or removes a stored bridge row; and the role of a row a
\* committed link run adds is the role of the first cast row of that pair in
\* its source.
C25_FirstRoleWins ==
    /\ \A b1, b2 \in db.Bridge_Movie_Actor :
            (b1.Movie_SK = b2.Movie_SK /\ b1.Actor_SK = b2.Actor_SK) => b1 = b2
    /\ prev.Bridge_Movie_Actor \subseteq db.Bridge_Movie_Actor
    /\ (Len(hist) > 0 /\ Last.op = "links" /\ Last.out.status = "committed") =>
        \A b \in db.Bridge_Movie_Actor \ prev.Bridge_Movie_Actor :
            LET cast == CastRowsOf(AllLinkSources[Last.arg],
                                   MovieKeyOf(db, b.Movie_SK),
                                   ActorKeyOf(db, b.Actor_SK))
            IN  /\ Len(cast) > 0
                /\ b.Role = (IF Truthy(cast[1].role) THEN cast[1].role ELSE Null)

\* A committed link run offered a different role for a stored pair.
C25_Witness ==
    \E b \in db.Bridge_Movie_Actor :
        /\ RoleOfferedAgain(b)
        /\ CastRowsOf(AllLinkSources[Last.arg], MovieKeyOf(db, b.Movie_SK),
                      ActorKeyOf(db, b.Actor_SK))[1].role # b.Role

\* A committed link run met two cast rows with different roles for one new
\* pair.
TwoRolesInOneRun ==
       /\ Len(hist) > 0 /\ Last.op = "links" /\ Last.out.status = "committed"
       /\ \E b \in db.Bridge_Movie_Actor \ prev.Bridge_Movie_Actor :
            LET cast == CastRowsOf(AllLinkSources[Last.arg],
                                   MovieKeyOf(db, b.Movie_SK),
                                   ActorKeyOf(db, b.Actor_SK))
            IN  Len(cast) > 1 /\ cast[2].role # cast[1].role

\* The (book SK, movie SK) pairs of the links of a finished link run whose
\* book key and movie key both resolved to a surrogate key.
ResolvedPairs(out) ==
    {<<DictGet(out.book_src_to_sk, l[1], 0), DictGet(out.movie_src_to_sk, l[2], 0)>> :
        l \in {m \in Range(out.norm_links) :
                /\ DictGet(out.book_src_to_sk, m[1], 0) # 0
                /\ DictGet(out.movie_src_to_sk, m[2], 0) # 0}}

FactPairs(d) == {<<f.Book_SK, f.Movie_SK>> : f \in d.Fact_Book_Adaptation}

\* The labels of the lines a link run prints that count something other
\* than dropped pairs.
OtherCounts ==
    {"Link rows discovered", "DW load complete: rows inserted",
     "Books upserted (distinct Book_ID_Source)",
     "Movies upserted (distinct IMDb ids)",
     "Actors upserted (distinct Actor_ID)",
     "Movie-Actor bridge rows inserted", "Fact rows inserted/updated"}

\* C26: a committed link run leaves a fact row for exactly the pairs stored
\* before it and the pairs of its links whose two keys resolved, and one of
\* the lines it prints reports the number of pairs it dropped.
C26_DroppedPairsReported ==
    (Len(hist) > 0 /\ Last.op = "links" /\ Last.out.status = "committed") =>
        /\ FactPairs(db) = FactPairs(prev) \cup ResolvedPairs(Last.out)
        /\ \E line \in Range(Last.out.printed) :
            /\ line.label \notin OtherCounts
            /\ line.value = Len(Last.out.norm_links)
                                - Cardinality(ResolvedPairs(Last.out))

\* What the code does keep of C26: the fact rows are those of the resolved
\* pairs.
FactsForResolvedPairs ==
    (Len(hist) > 0 /\ Last.op = "links" /\ Last.out.status = "committed") =>
        FactPairs(db) = FactPairs(prev) \cup ResolvedPairs(Last.out)

\* A box-office row the stage can use on warehouse d: it has a title, its
\* date parses, and a Dim_Movie row of d carries that title and that year.
BoxRowUsable(d, r) == \E m \in d.Dim_Movie : BoxRowMatches(r, m)

\* The movie SKs the rows of a box-office file match on warehouse d.
BoxMatchedSks(d, rows) ==
    {m.Movie_SK : m \in {n \in d.Dim_Movie :
                            \E r \in Range(rows) : BoxRowMatches(r, n)}}

\* C27: after a committed box-office run the skipped count is the number of
\* source rows without a title, without a parseable date or without a
\* Dim_Movie row of their title and year; the matched count is the number of
\* the other rows, so the two add up to the number of source rows; and every
\* row of the warehouse the run changed belongs to a matched movie.
C27_UnmatchedRowsCountedNotWritten ==
    (Len(hist) > 0 /\ Last.op = "box_office" /\ Last.out.status = "committed") =>
        LET rows == AllBoxSources[Last.arg]
            unmatched == {i \in 1..Len(rows) : ~BoxRowUsable(prev, rows[i])}
            sks == BoxMatchedSks(prev, rows)
        IN  /\ Last.out.skipped_rows = Cardinality(unmatched)
            /\ Last.out.updated_dims = Len(rows) - Cardinality(unmatched)
            /\ Last.out.updated_dims + Last.out.skipped_rows = Len(rows)
            /\ \A m \in db.Dim_Movie \ prev.Dim_Movie : m.Movie_SK \in sks
            /\ \A f \in db.Fact_Book_Adaptation \ prev.Fact_Book_Adaptation :
                    f.Movie_SK \in sks
            /\ [db EXCEPT !.Dim_Movie = {}, !.Fact_Book_Adaptation = {}]
                = [prev EXCEPT !.Dim_Movie = {}, !.Fact_Book_Adaptation = {}]

\* A committed run over the file with the three kinds of unusable row and
\* one usable row: three skipped, one matched, and the matched movie changed.
C27_Witness ==
    /\ Len(hist) > 0 /\ Last.op = "box_office" /\ Last.out.status = "committed"
    /\ AllBoxSources[Last.arg] = BoxGaps
    /\ Last.out.skipped_rows = 3 /\ Last.out.updated_dims = 1
    /\ db.Dim_Movie # prev.Dim_Movie

\* C28: an invocation of main whose selected stages all lack their source
\* path leaves the warehouse as it was, and in any invocation every selected
\* stage whose path is present runs, the warehouse ending as it ends when
\* only those stages are selected.
C28_OtherStagesStillRun ==
    [][(Len(hist') > Len(hist) /\ hist'[Len(hist')].op = "main") =>
        LET args == hist'[Len(hist')].arg
            ran == {e.stage : e \in {x \in Range(hist'[Len(hist')].out.ran) :
                                        x.status # "no_source"}}
        IN  /\ args.sel \subseteq args.missing => db' = db
            /\ ran = args.sel \ args.missing
            /\ db' = Main(db, seq, [sel |-> args.sel \ args.missing,
                                    missing |-> {}]).db]_vars

\* A people row with a movie key that can be derived, a person id and a name.
UsablePerson(r) ==
    /\ Truthy(_derive_movie_id_source_from_imdb(r.tconst))
    /\ Truthy(r.nconst)
    /\ Truthy(r.primaryname)

\* The usable rows of a people table in one of the given categories.
PeopleIn(rows, categories) ==
    SelectSeq(rows, LAMBDA r : UsablePerson(r) /\ r.category \in categories)

\* The usable director rows of one movie key.
DirectorsOf(rows, key) ==
    SelectSeq(PeopleIn(rows, {Txt("director")}),
              LAMBDA r : _derive_movie_id_source_from_imdb(r.tconst) = Str(key))

\* C29: the director crosswalk has an entry for exactly the movie keys of
\* the usable director rows, each mapped to the name on the first of them;
\* the actor crosswalk lists exactly the usable actor and actress rows, in
\* order; so a row without a derivable movie key, a person id or a name is
\* in neither.
C29_FirstDirectorAndCastOnly ==
    (Len(hist) > 0 /\ Last.op = "people") =>
        LET rows == Last.arg
            out == Last.out.value
            cast == PeopleIn(rows, {Txt("actor"), Txt("actress")})
        IN  /\ {out.imdb_to_director[i][1] : i \in 1..Len(out.imdb_to_director)}
                = {_derive_movie_id_source_from_imdb(r.tconst).c :
                        r \in Range(PeopleIn(rows, {Txt("director")}))}
            /\ \A i \in 1..Len(out.imdb_to_director) :
                    out.imdb_to_director[i][2]
                        = DirectorsOf(rows, out.imdb_to_director[i][1])[1].primaryname
            /\ out.actors_data =
                    [i \in 1..Len(cast) |->
                        [imdb_key |-> _derive_movie_id_source_from_imdb(cast[i].tconst).c,
                         actor_id |-> cast[i].nconst,
                         name |-> cast[i].primaryname,
                         role |-> cast[i].role]]

\* A people table with two director rows of different names for one movie
\* and a row that lacks a key, an id or a name.
C29_Witness ==
    /\ Len(hist) > 0 /\ Last.op = "people"
    /\ LET ds == DirectorsOf(Last.arg, <<"7">>)
       IN  Len(ds) > 1 /\ ds[2].primaryname # ds[1].primaryname
    /\ \E r \in Range(Last.arg) : ~UsablePerson(r)

\* The rows with a non-null IMDb id for TMDb id t, in the order the stage
\* processes them: the mapping table, then the movies table.
KnownImdbRows(arg, t) ==
    SelectSeq(arg.tmdbmap \o arg.movies,
              LAMBDA r : r.tmdbid = Num(t) /\ NotNa(r.imdbid))

\* C30: the crosswalk has an entry for exactly the TMDb ids that some row
\* gives a non-null IMDb id, and the entry is the IMDb id of the last such
\* row, mapping table first and movies after; a link row that carries a
\* TMDb id only is paired with the key derived from that IMDb id, and is
\* left out when there is no entry or no key can be derived.
C30_LastImdbIdWins ==
    (Len(hist) > 0 /\ Last.op = "tmdb_to_imdb") =>
        LET out == Last.out.value
            mine == KnownImdbRows(Last.arg, Last.arg.tmdb_id)
            key == _derive_movie_id_source_from_imdb(
                        Str(PyStr(mine[Len(mine)].imdbid)))
        IN  /\ \A t \in TmdbIds :
                LET known == KnownImdbRows(Last.arg, t)
                IN  IF Len(known) = 0 THEN ~DictHas(out.tmdb_to_imdb, t)
                    ELSE /\ DictHas(out.tmdb_to_imdb, t)
                         /\ DictGet(out.tmdb_to_imdb, t, Null)
                                = Str(PyStr(known[Len(known)].imdbid))
            /\ out.link = IF Len(mine) = 0 \/ ~Truthy(key) THEN <<>>
                          ELSE <<BookIdText(Num(123)), key.c>>

\* The mapping table and the movies table give different IMDb ids for the
\* TMDb id of the link row, and the link resolves.
C30_Witness ==
    /\ Len(hist) > 0 /\ Last.op = "tmdb_to_imdb"
    /\ LET known == KnownImdbRows(Last.arg, Last.arg.tmdb_id)
       IN  /\ Len(known) > 1
           /\ known[1].imdbid # known[Len(known)].imdbid
           /\ known[1] \in Range(Last.arg.tmdbmap)
           /\ known[Len(known)] \in Range(Last.arg.movies)
    /\ Last.out.value.link # <<>>

\* The crosswalk maps as the link stage builds them from a source, before
\* the transaction opens.
BuiltMaps(src) ==
    [tmdb_to_imdb |-> BuildTmdbToImdb(src),
     imdb_to_genre |-> BuildImdbToGenre(src),
     imdb_to_director |-> BuildPeople(src).imdb_to_director,
     unique_actors |-> BuildPeople(src).unique_actors,
     actors_data |-> BuildPeople(src).actors_data]

\* C31: when a link run ends, committed or rolled back, the TMDb-to-IMDb
\* map, the genre map, the director map, the actor names and the cast list
\* are what they were when they were built.
C31_CrosswalksOnlyRead ==
    (Len(hist) > 0 /\ Last.op = "links") =>
        Last.out.maps = BuiltMaps(AllLinkSources[Last.arg])

\* A committed link run that wrote dimension, bridge and fact rows from
\* non-empty director, actor and cast maps.
C31_Witness ==
    /\ Len(hist) > 0 /\ Last.op = "links" /\ Last.out.status = "committed"
    /\ Last.out.maps.imdb_to_director # <<>>
    /\ Last.out.maps.unique_actors # <<>>
    /\ Last.out.maps.actors_data # <<>>
    /\ db.Dim_Actor # prev.Dim_Actor
    /\ db.Bridge_Movie_Actor # prev.Bridge_Movie_Actor
    /\ db.Fact_Book_Adaptation # prev.Fact_Book_Adaptation

\* YYYYMMDD of a calendar date.
Yyyymmdd(d) == d.y * 10000 + d.m * 100 + d.d

\* The movies a finished link run upserted, as they stand in the warehouse.
MoviesOfRun(out) ==
    {m \in db.Dim_Movie :
        \E i \in 1..Len(out.movie_src_to_sk) : out.movie_src_to_sk[i][2] = m.Movie_SK}

\* C32: every Dim_Date row has the key y*10000 + m*100 + d of its date and
\* no two rows share a key; no run changes or removes a Dim_Date row, so
\* inserting a date whose key exists leaves the row as it was; and the fact
\* rows a committed link run adds carry, as release-date key, that number
\* for the release date of their movie, or nothing when it has none.
C32_DateKeyIsYyyymmdd ==
    /\ \A r \in db.Dim_Date : r.Date_SK = Yyyymmdd(r.Full_Date)
    /\ \A r1, r2 \in db.Dim_Date : r1.Date_SK = r2.Date_SK => r1 = r2
    /\ prev.Dim_Date \subseteq db.Dim_Date
    /\ (Len(hist) > 0 /\ Last.op = "links" /\ Last.out.status = "committed") =>
        /\ \A m \in MoviesOfRun(Last.out) :
                Truthy(m.Release_Date) =>
                    \E r \in db.Dim_Date :
                        /\ r.Full_Date = m.Release_Date
                        /\ r.Date_SK = Yyyymmdd(m.Release_Date)
        /\ \A f \in db.Fact_Book_Adaptation \ prev.Fact_Book_Adaptation :
            \A m \in MoviesOfRun(Last.out) :
                m.Movie_SK = f.Movie_SK =>
                    f.Movie_Release_Date_SK =
                        (IF Truthy(m.Release_Date)
                         THEN Num(Yyyymmdd(m.Release_Date)) ELSE Null)

\* A committed link run inserted a date whose key was stored already, and
\* a fact row of that movie carries the key.
C32_Witness ==
    /\ Len(hist) > 0 /\ Last.op = "links" /\ Last.out.status = "committed"
    /\ \E m \in MoviesOfRun(Last.out) :
        /\ Truthy(m.Release_Date)
        /\ m.Release_Date.d # 1
        /\ \E r \in prev.Dim_Date : r.Date_SK = Yyyymmdd(m.Release_Date)
        /\ \E f \in db.Fact_Book_Adaptation :
            /\ f.Movie_SK = m.Movie_SK
            /\ f.Movie_Release_Date_SK = Num(Yyyymmdd(m.Release_Date))

\* The dimension rows of a warehouse as (natural key, attributes), the
\* surrogate keys left out.
DimensionRows(d) ==
    [book |-> {[r EXCEPT !.Book_SK = 0] : r \in d.Dim_Book},
     movie |-> {[r EXCEPT !.Movie_SK = 0] : r \in d.Dim_Movie},
     actor |-> {[r EXCEPT !.Actor_SK = 0] : r \in d.Dim_Actor}]

BothOrders == Len(hist) > 0 /\ Last.op \in {"books_both_orders", "links_both_orders"}

\* C33: the books stage on two rows with different keys, and the link stage
\* on a source whose rows have keys of their own, leave the same dimension
\* rows, surrogate keys aside, whichever order the rows come in.
C33_DistinctKeysCommute ==
    BothOrders =>
        /\ Last.out.value.ab.out.status = Last.out.value.ba.out.status
        /\ DimensionRows(Last.out.value.ab.db) = DimensionRows(Last.out.value.ba.db)

\* Two rows with different keys were both written by the books stage, one
\* as an update of a stored book and one as a new book, and the two orders
\* gave them different surrogate keys.
C33_Witness ==
    /\ Len(hist) > 0 /\ Last.op = "books_both_orders"
    /\ Last.out.value.ab.out.status = "committed"
    /\ Last.out.value.ab.out.processed_books = 2
    /\ Last.arg.w.db.Dim_Book # {}
    /\ \E r \in Last.arg.w.db.Dim_Book :
            r.Book_ID_Source = Str(CsvKey(Last.arg.rows[1]))
    /\ Last.out.value.ab.db # Last.out.value.ba.db

\* C35: for every budget and revenue, absent, negative, zero or positive,
\* the link stage and the remote enrichment derive the same profit and the
\* same ROI.
C35_SameProfitAndRoi ==
    (Len(hist) > 0 /\ Last.op = "derived_measures") =>
        Last.out.value.links = Last.out.value.tmdb

\* What the two stages do agree on: the profit always, and the ROI for
\* every budget that is absent, zero or positive.
SameRoiUnlessNegativeBudget ==
    (Len(hist) > 0 /\ Last.op = "derived_measures") =>
        /\ Last.out.value.links.profit = Last.out.value.tmdb.profit
        /\ (Last.arg.budget.k = "null" \/ Last.arg.budget.v >= 0) =>
                Last.out.value.links.roi = Last.out.value.tmdb.roi

\* C34: in every reachable warehouse every fact row names a stored book and
\* a stored movie, every bridge row names a stored movie and a stored actor,
\* and every fact row with a release-date key names a stored date.
C34_ReferentialIntegrity ==
    /\ \A f \in db.Fact_Book_Adaptation :
        /\ \E b \in db.Dim_Book : b.Book_SK = f.Book_SK
        /\ \E m \in db.Dim_Movie : m.Movie_SK = f.Movie_SK
        /\ NotNa(f.Movie_Release_Date_SK) =>
                \E r \in db.Dim_Date : r.Date_SK = f.Movie_Release_Date_SK.v
    /\ \A b \in db.Bridge_Movie_Actor :
        /\ \E m \in db.Dim_Movie : m.Movie_SK = b.Movie_SK
        /\ \E a \in db.Dim_Actor : a.Actor_SK = b.Actor_SK

\* A warehouse after two runs that holds two fact rows with a release-date
\* key and a bridge row.
C34_Witness ==
    /\ Len(hist) > 1
    /\ \E f, g \in db.Fact_Book_Adaptation :
            /\ f # g
            /\ NotNa(f.Movie_Release_Date_SK) /\ NotNa(g.Movie_Release_Date_SK)
    /\ db.Bridge_Movie_Actor # {}

\* A fact row of the warehouse before the last run that an enrichment had
\* written to (tickets sold come from the box-office stage only) and whose
\* pair the last link run presented again.
EnrichedAndPresentedAgain(f) ==
    /\ Len(hist) > 0 /\ Last.op = "links" /\ Last.out.status = "committed"
    /\ f \in prev.Fact_Book_Adaptation
    /\ NotNa(f.Tickets_Sold)
    /\ <<f.Book_SK, f.Movie_SK>> \in ResolvedPairs(Last.out)

\* C36: a link run leaves every fact row that was stored before it exactly
\* as it was, enriched or not.
C36_RerunKeepsEnrichedFacts ==
    (Len(hist) > 0 /\ Last.op = "links") =>
        prev.Fact_Book_Adaptation \subseteq db.Fact_Book_Adaptation

\* A committed link run presented the pair of a fact row that the box-office
\* stage had enriched with a gross other than the one the link source holds.
C36_Witness ==
    \E f \in prev.Fact_Book_Adaptation :
        /\ EnrichedAndPresentedAgain(f)
        /\ NotNa(f.Box_Office_Gross)
        /\ f \in db.Fact_Book_Adaptation

\* A fact row with its three book measures blanked.
WithoutBookMeasures(f) ==
    [f EXCEPT !.Book_Average_Rating = Null, !.Book_Ratings_Count = Null,
              !.Book_Text_Reviews_Count = Null]

\* The surrogate keys of the books the last books run processed.
ProcessedBookSks ==
    {Last.out.fact_update_data[i].bsk : i \in 1..Len(Last.out.fact_update_data)}

\* C37: a books run inserts and deletes no fact row; a fact row it changed
\* belongs to a book it processed and differs from what it was in the
\* average rating, the ratings count and the text-review count only.
C37_BackfillTouchesBookMeasuresOnly ==
    (Len(hist) > 0 /\ Last.op = "books") =>
        /\ Cardinality(db.Fact_Book_Adaptation) = Cardinality(prev.Fact_Book_Adaptation)
        /\ FactPairs(db) = FactPairs(prev)
        /\ \A f \in db.Fact_Book_Adaptation :
            \E g \in prev.Fact_Book_Adaptation :
                /\ WithoutBookMeasures(f) = WithoutBookMeasures(g)
                /\ f # g => f.Book_SK \in ProcessedBookSks

\* A committed books run changed the measures of the fact row of a book it
\* processed and left the fact row of another book as it was.
C37_Witness ==
    /\ Len(hist) > 0 /\ Last.op = "books" /\ Last.out.status = "committed"
    /\ \E f \in db.Fact_Book_Adaptation \ prev.Fact_Book_Adaptation :
            /\ f.Book_SK \in ProcessedBookSks
            /\ NotNa(f.Book_Text_Reviews_Count)
    /\ \E g \in db.Fact_Book_Adaptation \cap prev.Fact_Book_Adaptation :
            g.Book_SK \notin ProcessedBookSks

\* C38: two different calendar dates never have the same key.
C38_DateKeyInjective ==
    (Len(hist) > 0 /\ Last.op = "date_to_sk") =>
        (Last.arg[1] # Last.arg[2] => Last.out.value[1] # Last.out.value[2])

\* The keys of 31 December of year 1 and of 1 February of year 2 were
\* computed: 11231 and 20201.
C38_Witness ==
    /\ Len(hist) > 0 /\ Last.op = "date_to_sk"
    /\ Last.arg = <<Date(1, 12, 31), Date(2, 2, 1)>>
    /\ Last.out.value = <<11231, 20201>>

====
